---- MODULE Spec2Model ----
(***************************************************************************)
(* Governance core of the MSSQL MCP server: the environment registry with  *)
(* its connection cache (config/EnvironmentManager.ts) and the policy      *)
(* wrapper installed on every tool (index.ts, wrapToolRun).                *)
(*                                                                         *)
(* JavaScript runs each piece of code between two awaits atomically, so    *)
(* every action below is one such piece: a wrapped call runs from its      *)
(* start to the first await inside getConnection, and each later action    *)
(* resumes one awaited promise.                                            *)
(*                                                                         *)
(* An optional field (T | undefined) is the set of its values: {} when it  *)
(* is undefined, {v} when it is v.  An array is a sequence.                *)
(***************************************************************************)
EXTENDS Integers, Sequences, FiniteSets, TLC

\* ------------------------------------------------------------------ bounds
NumCallers == 2       \* concurrent clients of the wrapped tools
MaxPools == 3         \* connection pools sql.connect may hand out in a run
MaxClock == 1         \* minutes the clock may advance

\* --------------------------------------------------------------- constants
MarginMinutes == 2          \* cache hit needs expiresOn > now + 2 min
DefaultTokenMinutes == 30   \* expiry used when the token carries none

Callers == 1 .. NumCallers
PoolIds == 1 .. MaxPools

Undefined == {}
Some(v) == {v}
Range(s) == {s[i] : i \in DOMAIN s}

\* The first element of a non-empty set of indexes.
First(indexes) == CHOOSE i \in indexes : \A j \in indexes : i <= j

\* The static sets of index.ts.
MUTATING_TOOL_NAMES ==
  {"insert_data", "delete_data", "update_data", "create_table", "create_index",
   "drop_table"}

APPROVAL_EXEMPT_TOOLS ==
  {"list_tables", "list_databases", "list_environments",
   "validate_environment_config", "describe_table", "test_connection",
   "search_schema", "inspect_relationships"}

\* The tools whose run is replaced by the wrapper.
WrappedTools ==
  {"insert_data", "delete_data", "read_data", "update_data", "create_table",
   "create_index", "drop_table", "list_tables", "list_databases",
   "list_environments", "validate_environment_config", "describe_table",
   "search_schema", "profile_table", "inspect_relationships", "test_connection",
   "explain_query"}

\* The tools the modelled clients call: one mutating, one plain reader that
\* needs approval, one metadata tool exempt from approval.
CalledTools == {"update_data", "read_data", "list_tables"}

\* args.confirm as sent by a client: absent, the boolean true, or the string
\* "true" (truthy, but not === true).
ConfirmValues == {"undefined", "bool:true", "str:true"}

\* The calls of the concurrent clients: a metadata tool on the default
\* environment, on production, on an environment without credentials and on
\* one that is not registered, and an update production rejects.
ConcurrentRequests ==
  {[tool |-> "list_tables", environment |-> Undefined, confirm |-> "undefined",
    tableName |-> Undefined],
   [tool |-> "list_tables", environment |-> Some("prod"), confirm |-> "undefined",
    tableName |-> Undefined],
   [tool |-> "update_data", environment |-> Some("prod"), confirm |-> "undefined",
    tableName |-> Undefined],
   [tool |-> "list_tables", environment |-> Some("qa"), confirm |-> "undefined",
    tableName |-> Undefined],
   [tool |-> "list_tables", environment |-> Some("ghost"), confirm |-> "undefined",
    tableName |-> Undefined]}

\* Lifetimes, in minutes, of the tokens the identity provider hands out.
TokenLifetimes == {3}

VARIABLES
  environments,   \* EnvironmentManager.environments: name -> EnvironmentConfig
  auditEnabled,   \* AuditLogger.enabled (AUDIT_LOGGING # "false")
  connections,    \* EnvironmentManager.connections: name -> {} or {[pool, expiresOn]}
  keys,           \* the keys of the connections Map, in insertion order
  closeAll,       \* EnvironmentManager.closeAll: where it stands, whether it has run
  isReadOnly,     \* index.ts isReadOnly (READONLY = "true")
  intentRouter,   \* index.ts intentRouter: the fields of the IntentRouter
  routing,        \* per caller: where its call of intentRouter.route stands
  connected,      \* the pools whose .connected is true
  nextPool,       \* pools handed out by sql.connect so far
  globalPool,     \* (sql as any).globalPool: {} or {pool}
  now,            \* the clock, in minutes
  pc,             \* per caller: where its wrapped call stands
  args,           \* per caller: [tool, environment, confirm, tableName] of its call
  cached,         \* per caller: cached.pool, of the `cached` local of getConnection
  newExpires,     \* per caller: the expiresOn returned by createSqlConfig
  pool,           \* per caller: the pool getConnection returned to the wrapper
  result,         \* per caller: what the wrapped call gave its caller
  obs,            \* per caller: what the current call has done so far
  registryCall,   \* the last call of the registry made from outside: method, arguments, answer
  toolCall,       \* the last run of a tool made on its own: tool, params, rows, result
  startup         \* index.ts top-level code: where it stands, the wrappers set, the last request

vars ==
  <<environments, auditEnabled, isReadOnly, intentRouter, registryCall, toolCall, startup, routing, connections,
    keys, closeAll, connected, nextPool, globalPool, now, pc, args, cached,
    newExpires, pool, result, obs>>

\* ------------------------------------------------------------------ strings
\* JavaScript strings are TLA+ strings; the operators below are the String
\* methods the code calls.
UpperCaseLetters == "ABCDEFGHIJKLMNOPQRSTUVWXYZ"
LowerCaseLetters == "abcdefghijklmnopqrstuvwxyz"
WordCharacters == "abcdefghijklmnopqrstuvwxyzABCDEFGHIJKLMNOPQRSTUVWXYZ0123456789_"

CharAt(text, i) == SubSeq(text, i, i)

\* The characters of a string, as a set.
Characters(text) == {CharAt(text, i) : i \in 1 .. Len(text)}

IsWhitespace(ch) == ch \in {" ", "\t", "\n"}

\* String.prototype.includes
Includes(text, keyword) ==
  \E i \in 1 .. (Len(text) - Len(keyword) + 1) :
    SubSeq(text, i, i + Len(keyword) - 1) = keyword

\* String.prototype.startsWith
StartsWith(text, prefix) ==
  Len(prefix) <= Len(text) /\ SubSeq(text, 1, Len(prefix)) = prefix

\* The lower-case letter of each upper-case letter.
LowerCaseOf ==
  [ch \in Characters(UpperCaseLetters) |->
     CharAt(LowerCaseLetters,
            CHOOSE i \in 1 .. Len(UpperCaseLetters) : CharAt(UpperCaseLetters, i) = ch)]

LowerChar(ch) == IF ch \in DOMAIN LowerCaseOf THEN LowerCaseOf[ch] ELSE ch

\* String.prototype.toLowerCase
RECURSIVE ToLowerCase(_)
ToLowerCase(text) ==
  IF text = "" THEN ""
  ELSE LowerChar(CharAt(text, 1)) \o ToLowerCase(SubSeq(text, 2, Len(text)))

\* String.prototype.trim
Trim(text) ==
  LET inked == {i \in 1 .. Len(text) : ~IsWhitespace(CharAt(text, i))}
  IN IF inked = {} THEN ""
     ELSE SubSeq(text, CHOOSE i \in inked : \A j \in inked : i <= j,
                       CHOOSE i \in inked : \A j \in inked : i >= j)

\* A sequence of strings joined by ", ".
RECURSIVE Join(_)
Join(strings) ==
  IF strings = <<>> THEN ""
  ELSE IF Len(strings) = 1 THEN strings[1]
  ELSE strings[1] \o ", " \o Join(Tail(strings))

\* --------------------------------------------------------- JavaScript values
\* The values a request's arguments may hold, by typeof; an array and an
\* object are kept by their number of elements and of keys.
JsUndefined == [type |-> "undefined"]
JsNull == [type |-> "null"]
JsString(s) == [type |-> "string", value |-> s]
JsBoolean(b) == [type |-> "boolean", value |-> b]
JsNumber(n) == [type |-> "number", value |-> n]
JsArray(n) == [type |-> "array", length |-> n]
JsObject(n) == [type |-> "object", keys |-> n]

\* An array and an object of a parsed JSON document, kept with what they hold.
JsArrayOf(elements) == [type |-> "array", length |-> Len(elements), elements |-> elements]
JsObjectOf(fields) ==
  [type |-> "object", keys |-> Cardinality(DOMAIN fields), fields |-> fields]

\* An arguments object is a function from its keys to their values.
EmptyObject == [k \in {} |-> JsUndefined]

\* object[key], undefined when the object has no such key.
Get(object, key) == IF key \in DOMAIN object THEN object[key] ELSE JsUndefined

\* { ...object, [key]: value }
With(object, key, value) ==
  [k \in DOMAIN object \cup {key} |-> IF k = key THEN value ELSE object[k]]

\* JavaScript truthiness.
Truthy(v) ==
  CASE v.type \in {"undefined", "null"} -> FALSE
    [] v.type = "string" -> v.value # ""
    [] v.type = "boolean" -> v.value
    [] v.type = "number" -> v.value # 0
    [] OTHER -> TRUE

\* ------------------------------------------------------------ environments
\* EnvironmentConfig, reduced to the fields the registry and the wrapper read.
\* hasCredentials: username and password are both non-empty.  allowedDatabases
\* is kept as the value of the file: undefined, the string "*" or an array.
\* An environment built here is restricted to its database "appdb".
EnvironmentConfig(name, authMode, hasCredentials, readonly, allowedTools, deniedTools, requireApproval, auditLevel, allowedSchemas, deniedSchemas) ==
  [name |-> name, authMode |-> authMode, hasCredentials |-> hasCredentials,
   readonly |-> readonly, allowedTools |-> allowedTools,
   deniedTools |-> deniedTools, requireApproval |-> requireApproval,
   auditLevel |-> auditLevel, allowedSchemas |-> allowedSchemas,
   deniedSchemas |-> deniedSchemas, database |-> "appdb", accessLevel |-> Undefined,
   allowedDatabases |-> JsUndefined, deniedDatabases |-> Undefined,
   maxRowsDefault |-> Undefined]

\* An environment that sets no governance field.
PlainEnvironment(name, authMode, hasCredentials) ==
  EnvironmentConfig(name, authMode, hasCredentials, Undefined, Undefined,
                    Undefined, Undefined, Undefined, Undefined, Undefined)

OptionalBoolean == {Undefined, Some(TRUE), Some(FALSE)}
AllowedToolsChoices ==
  {Undefined, Some(<<>>), Some(<<"read_data">>), Some(<<"update_data", "list_tables">>)}
DeniedToolsChoices ==
  {Undefined, Some(<<"update_data">>), Some(<<"read_data", "list_tables">>)}

\* Every policy the configuration file may give the production environment;
\* its audit level is none.
ProdConfigs ==
  {EnvironmentConfig("prod", "aad", FALSE, ro, al, dn, ap, Some("none"), Undefined, Undefined) :
     ro \in OptionalBoolean, al \in AllowedToolsChoices, dn \in DeniedToolsChoices,
     ap \in OptionalBoolean}

\* The README's multi-environment example: a locked-down production.
ReadmeProd ==
  EnvironmentConfig("prod", "aad", FALSE, Some(TRUE), Undefined, Undefined,
                    Some(TRUE), Some("verbose"), Undefined, Undefined)

\* loadFromFile: the map of the file's environments, keyed by name.  The file
\* is the README's example (dev with SQL credentials, prod with Azure AD) plus
\* qa, a Windows-authentication environment whose credentials are missing.
LoadEnvironments(prod) ==
  [n \in {"dev", "qa", "prod"} |->
     CASE n = "dev" -> PlainEnvironment("dev", "sql", TRUE)
       [] n = "qa" -> PlainEnvironment("qa", "windows", FALSE)
       [] n = "prod" -> prod]

defaultEnvironment == "dev"

\* A faulty getEnvironment, to tell property C25 apart from it: a name that
\* is not registered gives the default environment.
getEnvironmentOrDefault(name) ==
  LET targetName == IF name # Undefined /\ name # Some("")
                    THEN CHOOSE n \in name : TRUE
                    ELSE defaultEnvironment
  IN IF targetName \in DOMAIN environments
     THEN Some(environments[targetName])
     ELSE Some(environments[defaultEnvironment])

\* getEnvironment: name || defaultEnvironment || "default"; {} when it throws.
getEnvironment(name) ==
  LET targetName == IF name # Undefined /\ name # Some("")
                    THEN CHOOSE n \in name : TRUE
                    ELSE defaultEnvironment
  IN IF targetName \in DOMAIN environments
     THEN Some(environments[targetName])
     ELSE Undefined

\* ------------------------------------------------- the configuration file
\* The index of the "}" that ends a match of /\$\{secret:([^}]+)\}/ starting at
\* position i of `value`, 0 when there is no match at i.
MatchEnd(value, i) ==
  IF i + 8 > Len(value) \/ SubSeq(value, i, i + 8) # "${secret:" THEN 0
  ELSE LET closing == {j \in (i + 9) .. Len(value) : CharAt(value, j) = "}"}
       IN IF closing = {} \/ (i + 9) \in closing THEN 0 ELSE First(closing)

\* value.replace(secretPattern, ...) from position i on: process.env[secretName]
\* when it is set, the match itself when it is not.
RECURSIVE ReplaceSecretsFrom(_, _, _)
ReplaceSecretsFrom(value, i, processEnv) ==
  IF i > Len(value) THEN ""
  ELSE IF MatchEnd(value, i) = 0
  THEN CharAt(value, i) \o ReplaceSecretsFrom(value, i + 1, processEnv)
  ELSE LET secretName == SubSeq(value, i + 9, MatchEnd(value, i) - 1)
       IN (IF secretName \in DOMAIN processEnv
           THEN processEnv[secretName]
           ELSE SubSeq(value, i, MatchEnd(value, i)))
            \o ReplaceSecretsFrom(value, MatchEnd(value, i) + 1, processEnv)

\* resolveSecrets, process.env being the function from the names of the
\* variables that are set to their values.
resolveSecrets(value, processEnv) ==
  IF value = "" THEN value ELSE ReplaceSecretsFrom(value, 1, processEnv)

\* resolveSecretsInConfig: the strings of the object and of the objects in
\* it are resolved; arrays and the other values are left as they are.
RECURSIVE resolveSecretsInConfig(_, _)
resolveSecretsInConfig(config, processEnv) ==
  [key \in DOMAIN config |->
     IF config[key].type = "string"
     THEN JsString(resolveSecrets(config[key].value, processEnv))
     ELSE IF config[key].type = "object"
     THEN JsObjectOf(resolveSecretsInConfig(config[key].fields, processEnv))
     ELSE config[key]]

\* An optional boolean or string of a parsed environment, and an optional
\* array of strings.
OptionalValue(value) == IF value.type = "undefined" THEN Undefined ELSE Some(value.value)
OptionalStrings(value) ==
  IF value.type = "array"
  THEN Some([i \in DOMAIN value.elements |-> value.elements[i].value])
  ELSE Undefined

\* The EnvironmentConfig a parsed and resolved environment of the file is.
EnvironmentOf(resolvedEnv) ==
  [name |-> Get(resolvedEnv, "name").value,
   authMode |-> Get(resolvedEnv, "authMode").value,
   hasCredentials |-> Truthy(Get(resolvedEnv, "username")) /\ Truthy(Get(resolvedEnv, "password")),
   readonly |-> OptionalValue(Get(resolvedEnv, "readonly")),
   allowedTools |-> OptionalStrings(Get(resolvedEnv, "allowedTools")),
   deniedTools |-> OptionalStrings(Get(resolvedEnv, "deniedTools")),
   requireApproval |-> OptionalValue(Get(resolvedEnv, "requireApproval")),
   auditLevel |-> OptionalValue(Get(resolvedEnv, "auditLevel")),
   allowedSchemas |-> OptionalStrings(Get(resolvedEnv, "allowedSchemas")),
   deniedSchemas |-> OptionalStrings(Get(resolvedEnv, "deniedSchemas")),
   database |-> Get(resolvedEnv, "database").value,
   accessLevel |-> OptionalValue(Get(resolvedEnv, "accessLevel")),
   allowedDatabases |-> Get(resolvedEnv, "allowedDatabases"),
   deniedDatabases |-> OptionalStrings(Get(resolvedEnv, "deniedDatabases")),
   maxRowsDefault |-> OptionalValue(Get(resolvedEnv, "maxRowsDefault"))]

\* The environments of the file after resolveSecretsInConfig, in file order.
ResolvedEnvironments(file, processEnv) ==
  [i \in DOMAIN file |-> resolveSecretsInConfig(file[i], processEnv)]

\* loadFromFile: each environment of the file is resolved and set under its
\* name, a later one replacing an earlier one of the same name.
loadFromFile(file, processEnv) ==
  LET resolved == ResolvedEnvironments(file, processEnv)
      Last(name) == CHOOSE i \in DOMAIN resolved :
                      /\ Get(resolved[i], "name").value = name
                      /\ \A j \in DOMAIN resolved : Get(resolved[j], "name").value = name => j <= i
  IN [name \in {Get(resolved[i], "name").value : i \in DOMAIN resolved} |->
        EnvironmentOf(resolved[Last(name)])]

\* ------------------------------------------------------------------ policy
OrElse(opt, default) == IF opt = Undefined THEN default ELSE CHOOSE v \in opt : TRUE

\* The characters "." of a regular expression does not match (the line
\* separators U+2028 and U+2029 are two more).
IsLineTerminator(ch) == ch \in {"\n", "\r"}

\* EnvironmentManager.matchesPattern: the pattern's "*" becomes ".*", which
\* stands for any run of characters other than line terminators; every other
\* character is escaped and stands for itself, whatever its case; the
\* regular expression is anchored at both ends of the value.
RECURSIVE matchesPattern(_, _)
matchesPattern(value, pattern) ==
  IF pattern = "" THEN value = ""
  ELSE IF CharAt(pattern, 1) = "*"
  THEN \E skipped \in 0 .. Len(value) :
         /\ \A k \in 1 .. skipped : ~IsLineTerminator(CharAt(value, k))
         /\ matchesPattern(SubSeq(value, skipped + 1, Len(value)),
                           SubSeq(pattern, 2, Len(pattern)))
  ELSE /\ value # ""
       /\ LowerChar(CharAt(value, 1)) = LowerChar(CharAt(pattern, 1))
       /\ matchesPattern(SubSeq(value, 2, Len(value)), SubSeq(pattern, 2, Len(pattern)))

\* A faulty isDatabaseAllowed, to tell property C26 apart from it: the lists
\* are consulted whatever the access level.
isDatabaseAllowedByLists(environmentName, databaseName) ==
  LET env == CHOOSE e \in getEnvironment(environmentName) : TRUE
      deniedDatabases == OrElse(env.deniedDatabases, <<>>)
      allowedDatabases == env.allowedDatabases
      Same(db) == ToLowerCase(db) = ToLowerCase(databaseName)
  IN IF \E i \in DOMAIN deniedDatabases : Same(deniedDatabases[i]) THEN FALSE
     ELSE IF allowedDatabases = JsString("*") THEN TRUE
     ELSE IF /\ allowedDatabases.type = "array" /\ allowedDatabases.length > 0
             /\ ~\E i \in DOMAIN allowedDatabases.elements :
                   Same(allowedDatabases.elements[i].value)
     THEN FALSE
     ELSE TRUE

\* A faulty isDatabaseAllowed, to tell property C27 apart from it: the allow
\* list is consulted before the deny list.
isDatabaseAllowedAllowFirst(environmentName, databaseName) ==
  LET env == CHOOSE e \in getEnvironment(environmentName) : TRUE
      accessLevel == OrElse(env.accessLevel, "database")
      deniedDatabases == OrElse(env.deniedDatabases, <<>>)
      allowedDatabases == env.allowedDatabases
      Same(db) == ToLowerCase(db) = ToLowerCase(databaseName)
  IN IF accessLevel = "database"
     THEN ToLowerCase(databaseName) = ToLowerCase(env.database)
     ELSE IF allowedDatabases = JsString("*") THEN TRUE
     ELSE IF /\ allowedDatabases.type = "array" /\ allowedDatabases.length > 0
             /\ \E i \in DOMAIN allowedDatabases.elements :
                   Same(allowedDatabases.elements[i].value)
     THEN TRUE
     ELSE IF \E i \in DOMAIN deniedDatabases : Same(deniedDatabases[i]) THEN FALSE
     ELSE allowedDatabases.type # "array" \/ allowedDatabases.length = 0

\* EnvironmentManager.isDatabaseAllowed(environmentName, databaseName): the
\* `allowed` field of what it returns.
isDatabaseAllowed(environmentName, databaseName) ==
  LET env == CHOOSE e \in getEnvironment(environmentName) : TRUE
      accessLevel == OrElse(env.accessLevel, "database")
      deniedDatabases == OrElse(env.deniedDatabases, <<>>)
      allowedDatabases == env.allowedDatabases
      Same(db) == ToLowerCase(db) = ToLowerCase(databaseName)
  IN IF accessLevel = "database"
     THEN ToLowerCase(databaseName) = ToLowerCase(env.database)
     ELSE IF \E i \in DOMAIN deniedDatabases : Same(deniedDatabases[i]) THEN FALSE
     ELSE IF allowedDatabases = JsString("*") THEN TRUE
     ELSE IF /\ allowedDatabases.type = "array" /\ allowedDatabases.length > 0
             /\ ~\E i \in DOMAIN allowedDatabases.elements :
                   Same(allowedDatabases.elements[i].value)
     THEN FALSE
     ELSE TRUE

\* A faulty isSchemaAllowed, to tell property C28 apart from it: a reference
\* that an allowed pattern matches is allowed before the denied patterns are
\* looked at.
isSchemaAllowedAllowFirst(environmentName, schemaName, tableName) ==
  LET env == CHOOSE e \in getEnvironment(environmentName) : TRUE
      fullRef == IF tableName # "" THEN schemaName \o "." \o tableName ELSE schemaName
      deniedSchemas == OrElse(env.deniedSchemas, <<>>)
      allowedSchemas == OrElse(env.allowedSchemas, <<>>)
      Matches(pattern) == matchesPattern(fullRef, pattern) \/ matchesPattern(schemaName, pattern)
  IN IF \E i \in DOMAIN allowedSchemas : Matches(allowedSchemas[i]) THEN TRUE
     ELSE IF Len(allowedSchemas) > 0 THEN FALSE
     ELSE ~\E i \in DOMAIN deniedSchemas : Matches(deniedSchemas[i])

\* EnvironmentManager.isSchemaAllowed(environmentName, schemaName, tableName):
\* the `allowed` field of what it returns.
isSchemaAllowed(environmentName, schemaName, tableName) ==
  LET env == CHOOSE e \in getEnvironment(environmentName) : TRUE
      fullRef == IF tableName # "" THEN schemaName \o "." \o tableName ELSE schemaName
      deniedSchemas == OrElse(env.deniedSchemas, <<>>)
      allowedSchemas == OrElse(env.allowedSchemas, <<>>)
      Matches(pattern) == matchesPattern(fullRef, pattern) \/ matchesPattern(schemaName, pattern)
  IN IF \E i \in DOMAIN deniedSchemas : Matches(deniedSchemas[i]) THEN FALSE
     ELSE IF Len(allowedSchemas) > 0 /\ ~\E i \in DOMAIN allowedSchemas : Matches(allowedSchemas[i])
     THEN FALSE
     ELSE TRUE

\* The policy object wrapToolRun builds from the environment's configuration.
BuildPolicy(envConfig) ==
  [name |-> envConfig.name,
   readonly |-> OrElse(envConfig.readonly, FALSE),
   allowedTools |-> envConfig.allowedTools,
   deniedTools |-> envConfig.deniedTools,
   maxRowsDefault |-> envConfig.maxRowsDefault,
   requireApproval |-> OrElse(envConfig.requireApproval, FALSE),
   auditLevel |-> OrElse(envConfig.auditLevel, "basic")]

\* The four checks of wrapToolRun, each as the code writes it.
IsDenied(toolName, policy) ==
  \E list \in policy.deniedTools : Len(list) > 0 /\ toolName \in Range(list)

\* A faulty allow check, to tell property C8 apart from it: an empty list
\* allows nothing.
IsNotAllowedEvenIfEmpty(toolName, policy) ==
  \E list \in policy.allowedTools : toolName \notin Range(list)

IsNotAllowed(toolName, policy) ==
  \E list \in policy.allowedTools : Len(list) > 0 /\ toolName \notin Range(list)

\* A faulty readonly check, to tell property C6 apart from it: only dropping a
\* table counts as mutating.
IsReadonlyBlockedDropOnly(toolName, policy) ==
  policy.readonly /\ toolName = "drop_table"

IsReadonlyBlocked(toolName, policy) ==
  policy.readonly /\ toolName \in MUTATING_TOOL_NAMES

\* A faulty confirmation test, to tell property C7 apart from it: any truthy
\* confirm counts.
hasTruthyConfirmation(rawArgs) == rawArgs.confirm # "undefined"

hasConfirmation(rawArgs) == rawArgs.confirm = "bool:true"

NeedsApproval(toolName, policy, rawArgs) ==
  policy.requireApproval /\ toolName \notin APPROVAL_EXEMPT_TOOLS
    /\ ~hasConfirmation(rawArgs)

\* A faulty order of the checks, to tell property C2 apart from it: the allow
\* check runs before the deny check.
PolicyCheckAllowFirst(toolName, policy, rawArgs) ==
  IF IsNotAllowed(toolName, policy) THEN "TOOL_NOT_ALLOWED"
  ELSE IF IsDenied(toolName, policy) THEN "TOOL_DENIED"
  ELSE IF IsReadonlyBlocked(toolName, policy) THEN "ENVIRONMENT_READONLY"
  ELSE IF NeedsApproval(toolName, policy, rawArgs) THEN "APPROVAL_REQUIRED"
  ELSE "PASS"

\* The checks in the order the code runs them; "PASS" when none rejects.
PolicyCheck(toolName, policy, rawArgs) ==
  IF IsDenied(toolName, policy) THEN "TOOL_DENIED"
  ELSE IF IsNotAllowed(toolName, policy) THEN "TOOL_NOT_ALLOWED"
  ELSE IF IsReadonlyBlocked(toolName, policy) THEN "ENVIRONMENT_READONLY"
  ELSE IF NeedsApproval(toolName, policy, rawArgs) THEN "APPROVAL_REQUIRED"
  ELSE "PASS"

PolicyErrors ==
  {"TOOL_DENIED", "TOOL_NOT_ALLOWED", "ENVIRONMENT_READONLY", "APPROVAL_REQUIRED"}

\* The message of a rejection, for the tool and the policy of the call.
RejectionMessage(error, toolName, policy) ==
  CASE error = "TOOL_DENIED" ->
         "Tool '" \o toolName \o "' is explicitly denied in environment '"
           \o policy.name \o "'."
    [] error = "TOOL_NOT_ALLOWED" ->
         "Tool '" \o toolName \o "' is not permitted in environment '" \o policy.name
           \o "'. Allowed tools: " \o Join(OrElse(policy.allowedTools, <<>>)) \o "."
    [] error = "ENVIRONMENT_READONLY" ->
         "Environment '" \o policy.name \o "' is read-only. Tool '" \o toolName
           \o "' cannot be executed."
    [] error = "APPROVAL_REQUIRED" ->
         "Environment '" \o policy.name \o "' requires explicit approval for '"
           \o toolName
           \o "'. Review the operation and re-run with confirm: true to proceed."

\* The object a rejection returns: success false, a message and an error
\* code; only APPROVAL_REQUIRED echoes the arguments.
Rejection(error, rawArgs) ==
  [status |-> "rejected", success |-> Some(FALSE), error |-> error,
   message |-> RejectionMessage(error, rawArgs.tool,
                                BuildPolicy(CHOOSE e \in getEnvironment(rawArgs.environment) : TRUE)),
   providedArguments |-> IF error = "APPROVAL_REQUIRED" THEN Some(rawArgs)
                         ELSE Undefined]

\* What a call gave its caller: nothing yet, the result of the tool's run, or
\* an exception.
NoResult ==
  [status |-> "none", success |-> Undefined, error |-> "", message |-> "",
   providedArguments |-> Undefined]
Returned ==
  [status |-> "returned", success |-> Undefined, error |-> "", message |-> "",
   providedArguments |-> Undefined]
Thrown(error) ==
  [status |-> "thrown", success |-> Undefined, error |-> error, message |-> "",
   providedArguments |-> Undefined]

\* ------------------------------------------------------------------ router
\* Scores are counted in halves, so that the default base score 0.5 is the
\* integer 1: every amount the code adds is doubled.
HalfPoints(points) == 2 * points

\* A ToolRoutingConfig of toolRegistry; baseScore is given in halves.
ToolRoutingConfig(name, intents, keywords, requiredArgs, mutatesData, schemaChange, baseScore) ==
  [name |-> name, intents |-> intents, keywords |-> keywords,
   requiredArgs |-> requiredArgs, mutatesData |-> mutatesData,
   schemaChange |-> schemaChange, baseScore |-> baseScore,
   requiresConfirmation |-> Undefined]

toolRegistry ==
  << ToolRoutingConfig("read_data", <<"data_read">>,
       <<"select", "query", "fetch", "report", "count">>, <<"query">>,
       Undefined, Undefined, Some(4)),
     ToolRoutingConfig("list_tables", <<"schema_discovery">>,
       <<"list tables", "show tables", "tables">>, <<>>,
       Undefined, Undefined, Some(3)),
     ToolRoutingConfig("describe_table", <<"schema_discovery">>,
       <<"describe", "columns", "structure">>, <<"tableName">>,
       Undefined, Undefined, Some(3)),
     ToolRoutingConfig("search_schema", <<"schema_discovery">>,
       <<"search", "find", "look up">>, <<>>,
       Undefined, Undefined, Some(3)),
     ToolRoutingConfig("profile_table", <<"metadata">>,
       <<"profile", "sample", "distribution">>, <<"tableName">>,
       Undefined, Undefined, Undefined),
     ToolRoutingConfig("inspect_relationships", <<"metadata", "schema_discovery">>,
       <<"relationships", "foreign key", "references">>, <<"tableName">>,
       Undefined, Undefined, Undefined),
     ToolRoutingConfig("insert_data", <<"data_write">>,
       <<"insert", "add", "create record">>, <<"tableName", "data">>,
       Some(TRUE), Undefined, Undefined),
     ToolRoutingConfig("delete_data", <<"data_write">>,
       <<"delete", "remove", "purge">>, <<"tableName", "whereClause">>,
       Some(TRUE), Undefined, Undefined),
     ToolRoutingConfig("update_data", <<"data_write">>,
       <<"update", "modify", "fix">>, <<"tableName", "updates", "whereClause">>,
       Some(TRUE), Undefined, Undefined),
     ToolRoutingConfig("create_table", <<"schema_change">>,
       <<"create table", "new table">>, <<"tableName", "columns">>,
       Undefined, Some(TRUE), Undefined),
     ToolRoutingConfig("create_index", <<"schema_change">>,
       <<"create index", "add index">>, <<"tableName", "columns", "indexName">>,
       Undefined, Some(TRUE), Undefined),
     ToolRoutingConfig("drop_table", <<"schema_change">>,
       <<"drop table", "remove table", "delete table">>, <<"tableName">>,
       Some(TRUE), Some(TRUE), Undefined),
     ToolRoutingConfig("test_connection", <<"metadata">>,
       <<"test", "connection", "ping", "health">>, <<>>,
       Undefined, Undefined, Some(2)),
     ToolRoutingConfig("explain_query", <<"metadata">>,
       <<"plan", "explain", "showplan", "estimate">>, <<"query">>,
       Undefined, Undefined, Some(2)),
     ToolRoutingConfig("list_databases", <<"schema_discovery", "metadata">>,
       <<"databases", "list databases", "show databases", "dbs">>, <<>>,
       Undefined, Undefined, Some(3)),
     ToolRoutingConfig("list_environments", <<"metadata">>,
       <<"environments", "list environments", "connections", "configs">>, <<>>,
       Undefined, Undefined, Some(3)),
     ToolRoutingConfig("validate_environment_config", <<"metadata">>,
       <<"validate", "check", "config", "configuration", "health">>, <<>>,
       Undefined, Undefined, Some(3)) >>

\* The tools/list answers of index.ts.
readOnlyToolList ==
  <<"list_tables", "list_environments", "validate_environment_config",
    "read_data", "describe_table", "search_schema", "profile_table",
    "inspect_relationships", "test_connection", "explain_query">>

fullToolList ==
  <<"insert_data", "delete_data", "read_data", "describe_table", "update_data",
    "create_table", "create_index", "drop_table", "list_tables",
    "list_databases", "list_environments", "validate_environment_config",
    "search_schema", "profile_table", "inspect_relationships",
    "test_connection", "explain_query">>

exposedTools == IF isReadOnly THEN readOnlyToolList ELSE fullToolList

\* new IntentRouter(options) of a faulty router, to tell property C16 apart
\* from it: the router always allows mutations.
IntentRouterAllowing(tools, allowMutations, requireConfirmationForMutations) ==
  [tools |-> tools, allowMutations |-> TRUE,
   requireConfirmationForMutations |-> requireConfirmationForMutations]

\* new IntentRouter(options): the fields of the router.
IntentRouter(tools, allowMutations, requireConfirmationForMutations) ==
  [tools |-> tools, allowMutations |-> allowMutations,
   requireConfirmationForMutations |-> requireConfirmationForMutations]

\* EnvironmentManager.listEnvironments: the values of the environments Map in
\* insertion order, which is the order of the configuration file.
FileOrder == <<"dev", "qa", "prod-db", "prod">>
listEnvironments ==
  LET names == SelectSeq(FileOrder, LAMBDA n : n \in DOMAIN environments)
  IN [i \in 1 .. Len(names) |-> environments[names[i]]]

\* The position i of `text` is a word character (\w); positions outside the
\* text are not.
IsWordAt(text, i) == i \in 1 .. Len(text) /\ CharAt(text, i) \in Characters(WordCharacters)

\* \b holds between positions i - 1 and i of `text`.
WordBoundary(text, i) == IsWordAt(text, i - 1) # IsWordAt(text, i)

\* One character of an environment name, as a pattern with the "i" flag; with
\* dashAsSpace, the name has had its "-" replaced by \s.
MatchesNameChar(ch, nameChar, dashAsSpace) ==
  IF dashAsSpace /\ nameChar = "-"
  THEN IsWhitespace(ch)
  ELSE LowerChar(ch) = LowerChar(nameChar)

\* new RegExp(`\\b${name}\\b`, "i").test(prompt)
TestName(prompt, name, dashAsSpace) ==
  \E i \in 1 .. (Len(prompt) - Len(name) + 1) :
    /\ \A j \in 1 .. Len(name) :
         MatchesNameChar(CharAt(prompt, i + j - 1), CharAt(name, j), dashAsSpace)
    /\ WordBoundary(prompt, i)
    /\ WordBoundary(prompt, i + Len(name))

\* const envKeywords, in the order Object.entries walks it.
envKeywords ==
  <<[envSuffix |-> "prod", keywords |-> <<"production", "prod", "live">>],
    [envSuffix |-> "staging", keywords |-> <<"staging", "stage", "uat">>],
    [envSuffix |-> "dev", keywords |-> <<"development", "dev", "local">>]>>

\* A faulty inferEnvironment, to tell property C24 apart from it: the keyword
\* clusters are tried before the names.
inferEnvironmentKeywordsFirst(prompt) ==
  LET envs == listEnvironments
      mentioned == {i \in DOMAIN envs : \E dashAsSpace \in BOOLEAN :
                                          TestName(prompt, envs[i].name, dashAsSpace)}
      Matching(suffix) == {i \in DOMAIN envs : Includes(ToLowerCase(envs[i].name), suffix)}
      clusters == {k \in DOMAIN envKeywords :
                     /\ \E keyword \in Range(envKeywords[k].keywords) : Includes(prompt, keyword)
                     /\ Matching(envKeywords[k].envSuffix) # {}}
  IN IF clusters # {}
     THEN Some(envs[First(Matching(envKeywords[First(clusters)].envSuffix))].name)
     ELSE IF mentioned # {} THEN Some(envs[First(mentioned)].name)
          ELSE Undefined

\* IntentRouter.inferEnvironment: the name of the first environment the prompt
\* mentions, else the first environment carrying the suffix of a keyword
\* cluster the prompt mentions, else undefined.
inferEnvironment(prompt) ==
  LET envs == listEnvironments
      mentioned == {i \in DOMAIN envs : \E dashAsSpace \in BOOLEAN :
                                          TestName(prompt, envs[i].name, dashAsSpace)}
      Matching(suffix) == {i \in DOMAIN envs : Includes(ToLowerCase(envs[i].name), suffix)}
      clusters == {k \in DOMAIN envKeywords :
                     /\ \E keyword \in Range(envKeywords[k].keywords) : Includes(prompt, keyword)
                     /\ Matching(envKeywords[k].envSuffix) # {}}
  IN IF mentioned # {} THEN Some(envs[First(mentioned)].name)
     ELSE IF clusters # {}
          THEN Some(envs[First(Matching(envKeywords[First(clusters)].envSuffix))].name)
          ELSE Undefined

\* IntentRouter.normalizeArguments: the keys whose value is undefined are
\* dropped; what is not an object gives {}.
normalizeArguments(toolArgs) ==
  IF toolArgs = Undefined THEN EmptyObject
  ELSE LET given == CHOOSE a \in toolArgs : TRUE
       IN [k \in {key \in DOMAIN given : given[key] # JsUndefined} |-> given[k]]

\* A faulty test, to tell property C40 apart from it: a router that does not
\* allow mutations takes no tool at all.
isToolEligibleOnlyWithMutations(router, tool) == router.allowMutations

\* IntentRouter.isToolEligible
isToolEligible(router, tool) ==
  IF router.allowMutations THEN TRUE
  ELSE ~OrElse(tool.mutatesData, FALSE) /\ ~OrElse(tool.schemaChange, FALSE)

\* IntentRouter.extractSqlSnippet: "" stands for null, which is as falsy.
extractSqlSnippet(toolArgs) ==
  LET sqlCandidate == IF Get(toolArgs, "query").type = "string" THEN Some(Get(toolArgs, "query").value)
                      ELSE IF Get(toolArgs, "sql").type = "string" THEN Some(Get(toolArgs, "sql").value)
                      ELSE Undefined
  IN IF sqlCandidate = Undefined THEN ""
     ELSE ToLowerCase(Trim(CHOOSE s \in sqlCandidate : TRUE))

\* Faulty detectors, to tell property C23 apart from them: the detector of
\* data_read is tried first.
detectorsReadFirst ==
  <<[intent |-> "data_read",
     keywords |-> <<"select", "query", "fetch", "count", "report", "view">>],
    [intent |-> "schema_change",
     keywords |-> <<"create table", "drop table", "create index", "drop index", "alter", "ddl">>],
    [intent |-> "data_write",
     keywords |-> <<"update", "insert", "delete", "fix", "modify", "change", "correct">>],
    [intent |-> "metadata",
     keywords |-> <<"profile", "sample", "statistics", "distribution", "quality">>],
    [intent |-> "schema_discovery",
     keywords |-> <<"describe", "columns", "list tables", "show tables", "schema", "search">>]>>

\* The detectors of inferIntent, in order.
detectors ==
  <<[intent |-> "schema_change",
     keywords |-> <<"create table", "drop table", "create index", "drop index", "alter", "ddl">>],
    [intent |-> "data_write",
     keywords |-> <<"update", "insert", "delete", "fix", "modify", "change", "correct">>],
    [intent |-> "metadata",
     keywords |-> <<"profile", "sample", "statistics", "distribution", "quality">>],
    [intent |-> "schema_discovery",
     keywords |-> <<"describe", "columns", "list tables", "show tables", "schema", "search">>],
    [intent |-> "data_read",
     keywords |-> <<"select", "query", "fetch", "count", "report", "view">>]>>

\* IntentRouter.inferIntent
inferIntent(prompt, toolArgs) ==
  LET detected == {d \in DOMAIN detectors :
                     \E keyword \in Range(detectors[d].keywords) : Includes(prompt, keyword)}
      sqlSnippet == extractSqlSnippet(toolArgs)
  IN IF detected # {} THEN detectors[First(detected)].intent
     ELSE IF sqlSnippet # "" /\ StartsWith(sqlSnippet, "select") THEN "data_read"
     ELSE IF sqlSnippet # "" /\ (StartsWith(sqlSnippet, "update") \/ StartsWith(sqlSnippet, "delete"))
          THEN "data_write"
     ELSE IF sqlSnippet # "" /\ StartsWith(sqlSnippet, "insert") THEN "data_write"
     ELSE IF sqlSnippet # "" /\ (StartsWith(sqlSnippet, "create") \/ StartsWith(sqlSnippet, "drop"))
          THEN "schema_change"
     ELSE IF Truthy(Get(toolArgs, "tablePattern")) \/ Truthy(Get(toolArgs, "columnPattern"))
          THEN "schema_discovery"
     ELSE "data_read"

\* A faulty hasArgument that accepts blank strings and empty collections, to
\* tell property C18 apart from it.
hasArgumentIfPresent(toolArgs, key) ==
  Get(toolArgs, key).type \notin {"null", "undefined"}

\* IntentRouter.hasArgument
hasArgument(toolArgs, key) ==
  LET value == Get(toolArgs, key)
  IN CASE value.type \in {"null", "undefined"} -> FALSE
       [] value.type = "string" -> Len(Trim(value.value)) > 0
       [] value.type = "array" -> value.length > 0
       [] value.type = "object" -> value.keys > 0
       [] OTHER -> TRUE

\* IntentRouter.getMissingArguments
getMissingArguments(config, toolArgs) ==
  SelectSeq(config.requiredArgs, LAMBDA arg : ~hasArgument(toolArgs, arg))

\* Number.NEGATIVE_INFINITY: a score is {} when it is minus infinity, else
\* {halves}.
NEGATIVE_INFINITY == {}

\* config.baseScore ?? 0.5, in halves.
DefaultBaseScore == 1

\* The sum of a sequence of integers.
RECURSIVE Sum(_)
Sum(amounts) == IF amounts = <<>> THEN 0 ELSE Head(amounts) + Sum(Tail(amounts))

\* IntentRouter.scoreTool: the RoutingCandidate of one tool.
scoreTool(router, config, prompt, toolArgs, inferredIntent, preferredToolName) ==
  LET intentMatch == inferredIntent \in Range(config.intents)
      preferred == preferredToolName # Undefined /\ preferredToolName # Some("")
                     /\ preferredToolName = Some(config.name)
      keywordsHit == SelectSeq(config.keywords, LAMBDA keyword : Includes(prompt, keyword))
      score == OrElse(config.baseScore, DefaultBaseScore)
                 + (IF intentMatch THEN HalfPoints(5) ELSE 0)
                 + (IF preferred THEN HalfPoints(3) ELSE 0)
                 + Len(keywordsHit) * HalfPoints(2)
                 + Sum([i \in DOMAIN config.requiredArgs |->
                          IF hasArgument(toolArgs, config.requiredArgs[i])
                          THEN HalfPoints(1) ELSE 0 - HalfPoints(1)])
      reasons == (IF intentMatch THEN <<"intent match (" \o inferredIntent \o ")">> ELSE <<>>)
                   \o (IF preferred THEN <<"preferred tool match">> ELSE <<>>)
                   \o [i \in DOMAIN keywordsHit |-> "keyword '" \o keywordsHit[i] \o "'"]
  IN [config |-> config,
      score |-> IF (OrElse(config.mutatesData, FALSE) \/ OrElse(config.schemaChange, FALSE))
                     /\ ~router.allowMutations
                THEN NEGATIVE_INFINITY ELSE Some(score),
      reasons |-> reasons]

ScoreOf(candidate) == CHOOSE s \in candidate.score : TRUE

\* A faulty sort, to tell property C21 apart from it: descending, but among
\* equal scores the operation registered later comes first.
RECURSIVE SortByScoreLaterFirst(_)
SortByScoreLaterFirst(candidates) ==
  IF candidates = <<>> THEN <<>>
  ELSE LET sorted == SortByScoreLaterFirst(SubSeq(candidates, 1, Len(candidates) - 1))
           last == candidates[Len(candidates)]
           ahead == {i \in DOMAIN sorted : ScoreOf(sorted[i]) > ScoreOf(last)}
       IN SubSeq(sorted, 1, Cardinality(ahead)) \o <<last>>
            \o SubSeq(sorted, Cardinality(ahead) + 1, Len(sorted))

\* Array.prototype.sort((a, b) => b.score - a.score): descending and stable.
RECURSIVE SortByScore(_)
SortByScore(candidates) ==
  IF candidates = <<>> THEN <<>>
  ELSE LET sorted == SortByScore(SubSeq(candidates, 1, Len(candidates) - 1))
           last == candidates[Len(candidates)]
           ahead == {i \in DOMAIN sorted : ScoreOf(sorted[i]) >= ScoreOf(last)}
       IN SubSeq(sorted, 1, Cardinality(ahead)) \o <<last>>
            \o SubSeq(sorted, Cardinality(ahead) + 1, Len(sorted))

\* RouteParams; toolArguments, preferredToolName and environment are optional,
\* prompt and confirmIntent are whatever value the caller passed.
RouteParams(prompt, toolArguments, confirmIntent, preferredToolName, environment) ==
  [prompt |-> prompt, toolArguments |-> toolArguments, confirmIntent |-> confirmIntent,
   preferredToolName |-> preferredToolName, environment |-> environment]

RoutingErrors ==
  {"MISSING_PROMPT", "NO_TOOL_MATCH", "MISSING_ARGUMENTS", "CONFIRMATION_REQUIRED"}

\* A RouteResult with success false.
RouteFailure(error, routedTool, message, selectedEnvironment) ==
  [success |-> FALSE, routedTool |-> routedTool, intent |-> Undefined,
   reasoning |-> Undefined, toolResult |-> Undefined, message |-> message,
   error |-> error, selectedEnvironment |-> selectedEnvironment]

\* The RouteResult of an execution that returned.
RouteSuccess(routedTool, intent, reasoning, toolResult, selectedEnvironment) ==
  [success |-> TRUE, routedTool |-> Some(routedTool), intent |-> Some(intent),
   reasoning |-> Some(reasoning), toolResult |-> Some(toolResult), message |-> "",
   error |-> "", selectedEnvironment |-> selectedEnvironment]

\* The two gates after the winner is known (lines 161-185).
Gate(missingArgs, requiresConfirmation, confirmIntent) ==
  IF Len(missingArgs) # 0 THEN "MISSING_ARGUMENTS"
  ELSE IF requiresConfirmation /\ ~confirmIntent THEN "CONFIRMATION_REQUIRED"
  ELSE "PASS"

\* A faulty threshold, to tell property C20 apart from it: only a negative
\* winning score is refused.
IsNoMatchBelowZero(candidates) ==
  candidates = <<>> \/ ScoreOf(candidates[1]) < 0

\* !bestCandidate || bestCandidate.score <= 0
IsNoMatch(candidates) ==
  candidates = <<>> \/ ScoreOf(candidates[1]) <= 0

\* A faulty confirmation test, to tell property C17 apart from it: the
\* confirmation-flagged operations alone need confirmation.
requiresConfirmationIfFlagged(router, config) ==
  OrElse(config.requiresConfirmation, FALSE) /\ router.requireConfirmationForMutations

\* const requiresConfirmation (lines 171-175)
requiresConfirmation(router, config) ==
  /\ \/ OrElse(config.requiresConfirmation, FALSE)
     \/ OrElse(config.mutatesData, FALSE)
     \/ OrElse(config.schemaChange, FALSE)
  /\ router.requireConfirmationForMutations

\* candidate.score > Number.NEGATIVE_INFINITY
IsCandidate(candidate) == candidate.score # NEGATIVE_INFINITY

\* route is written below as the chain of its locals, each an operator of
\* the locals before it.

\* A faulty choice of the environment, to tell property C39 apart from it:
\* the prompt is asked first, this.inferEnvironment(...) || params.environment.
SelectedEnvironmentInferredFirst(params, normalizedPrompt) ==
  IF inferEnvironment(normalizedPrompt) # Undefined
  THEN inferEnvironment(normalizedPrompt)
  ELSE IF params.environment # Some("") THEN params.environment ELSE Undefined

\* const environment = params.environment || this.inferEnvironment(normalizedPrompt)
SelectedEnvironment(params, normalizedPrompt) ==
  IF params.environment # Undefined /\ params.environment # Some("")
  THEN params.environment
  ELSE inferEnvironment(normalizedPrompt)

\* if (environment) toolArguments.environment = environment
MergedArguments(normalized, environment) ==
  IF environment # Undefined /\ environment # Some("")
  THEN With(normalized, "environment", JsString(CHOOSE e \in environment : TRUE))
  ELSE normalized

\* tools.map((tool) => this.scoreTool(tool, ...))
ScoreAll(router, tools, normalizedPrompt, toolArguments, inferredIntent, preferredToolName) ==
  [i \in DOMAIN tools |->
     scoreTool(router, tools[i], normalizedPrompt, toolArguments, inferredIntent,
               preferredToolName)]

\* const candidates: the eligible tools, scored, filtered and sorted.
Candidates(router, normalizedPrompt, toolArguments, inferredIntent, preferredToolName) ==
  SortByScore(SelectSeq(ScoreAll(router,
                                 SelectSeq(router.tools, LAMBDA tool : isToolEligible(router, tool)),
                                 normalizedPrompt, toolArguments, inferredIntent,
                                 preferredToolName),
                        IsCandidate))

\* The return statement route stops at, "PASS" when it goes on to the run.
StoppedAt(router, prompt, candidates, toolArguments, confirmIntent) ==
  IF prompt = "" THEN "MISSING_PROMPT"
  ELSE IF IsNoMatch(candidates) THEN "NO_TOOL_MATCH"
  ELSE Gate(getMissingArguments(candidates[1].config, toolArguments),
            requiresConfirmation(router, candidates[1].config), confirmIntent)

\* The locals of route when it stops or goes on to the run.
Locals(stopped, toolArguments, environment, inferredIntent, candidates) ==
  [gate |-> stopped,
   toolArguments |-> IF stopped = "MISSING_PROMPT" THEN EmptyObject ELSE toolArguments,
   environment |-> IF stopped = "MISSING_PROMPT" THEN Undefined ELSE environment,
   intent |-> IF stopped = "MISSING_PROMPT" THEN "" ELSE inferredIntent,
   bestCandidate |-> IF stopped \in {"MISSING_PROMPT", "NO_TOOL_MATCH"} THEN Undefined
                     ELSE Some(candidates[1]),
   winningScore |-> IF stopped = "MISSING_PROMPT" \/ candidates = <<>> THEN Undefined
                    ELSE candidates[1].score,
   missingArgs |-> IF stopped = "MISSING_ARGUMENTS"
                   THEN getMissingArguments(candidates[1].config, toolArguments)
                   ELSE <<>>]

RouteWithCandidates(router, prompt, confirmIntent, toolArguments, environment, inferredIntent, candidates) ==
  Locals(StoppedAt(router, prompt, candidates, toolArguments, confirmIntent),
         toolArguments, environment, inferredIntent, candidates)

RouteWithIntent(router, params, prompt, toolArguments, environment, inferredIntent) ==
  RouteWithCandidates(router, prompt, Truthy(params.confirmIntent), toolArguments,
                      environment, inferredIntent,
                      Candidates(router, ToLowerCase(prompt), toolArguments, inferredIntent,
                                 params.preferredToolName))

RouteWithArguments(router, params, prompt, toolArguments, environment) ==
  RouteWithIntent(router, params, prompt, toolArguments, environment,
                  inferIntent(ToLowerCase(prompt), toolArguments))

RouteWithEnvironment(router, params, prompt, environment) ==
  RouteWithArguments(router, params, prompt,
                     MergedArguments(normalizeArguments(params.toolArguments), environment),
                     environment)

RouteWithPrompt(router, params, prompt) ==
  RouteWithEnvironment(router, params, prompt,
                       SelectedEnvironment(params, ToLowerCase(prompt)))

\* route from its first line to its await (lines 121-188): the gate that
\* stopped it, "PASS" when it goes on to run the winner, and the locals it has
\* then.
RoutePlan(router, params) ==
  RouteWithPrompt(router, params,
                  IF params.prompt.type = "string" THEN Trim(params.prompt.value) ELSE "")

\* The RouteResult of a route a gate stopped, with the message of that gate.
GateResult(plan) ==
  LET name == (CHOOSE b \in plan.bestCandidate : TRUE).config.name
  IN CASE plan.gate = "MISSING_PROMPT" ->
            RouteFailure("MISSING_PROMPT", Undefined,
                         "Prompt is required to route intent.", Undefined)
       [] plan.gate = "NO_TOOL_MATCH" ->
            RouteFailure("NO_TOOL_MATCH", Undefined,
                         "Unable to determine an appropriate SQL tool for the provided prompt. Try specifying the desired action more concretely (e.g., 'list tables', 'describe table X', 'run SELECT ...').",
                         Undefined)
       [] plan.gate = "MISSING_ARGUMENTS" ->
            RouteFailure("MISSING_ARGUMENTS", Some(name),
                         "Selected tool '" \o name \o "' requires argument(s): "
                           \o Join(plan.missingArgs)
                           \o ". Provide them in the request arguments.",
                         Undefined)
       [] plan.gate = "CONFIRMATION_REQUIRED" ->
            RouteFailure("CONFIRMATION_REQUIRED", Some(name),
                         "This operation modifies data or schema. Re-run with confirmIntent: true to proceed.",
                         Undefined)

\* ------------------------------------------------------------ registry
NoArgs ==
  [tool |-> "", environment |-> Undefined, confirm |-> "undefined",
   tableName |-> Undefined]

\* What one call has done so far (kept to state the properties, read by no
\* action): the calls it made to getToken, pool.close, sql.connect, the
\* underlying run and logToolInvocation, the records the logger wrote, how it
\* found the cache when it entered getConnection, the pool it closed, and the
\* callers whose getConnection for the same environment overlapped its own,
\* and the table of the INSERT its run sent; how the underlying run ended,
\* what the wrapper handed the logger (the run's result, or the failure
\* record of its catch block) and whether the logger's write failed; the
\* pool the wrapper resolved for the call, the pools the requests of the
\* underlying run were created on, and how many requests it created.
\* What getConnection did is kept until the wrapper goes on to the run.
NoObs ==
  [tokenCalls |-> 0, closeCalls |-> 0, connectCalls |-> 0, runCalls |-> 0,
   auditCalls |-> 0, auditWrites |-> 0, found |-> "none", closed |-> Undefined,
   peers |-> {}, queried |-> Undefined, ran |-> "none", audited |-> "none",
   writeFailed |-> FALSE, own |-> Undefined, requests |-> {}, requestCount |-> 0]

\* InsertDataTool.run, called with one record of data, up to its await: the
\* table of the INSERT it sends; no other tool's statement is kept.
InsertTarget(rawArgs) ==
  IF rawArgs.tool = "insert_data" THEN rawArgs.tableName ELSE Undefined

\* The name of the environment a caller's arguments resolve to.
EnvOf(c) == (CHOOSE e \in getEnvironment(args[c].environment) : TRUE).name

InGetConnection(c) == pc[c] \in {"config", "closing", "connecting"}

\* A faulty validity test, to tell property C5 apart from it: the two-minute
\* margin is left out.
CacheHitNoMargin(entry) ==
  \E e \in entry :
    /\ e.pool \in connected
    /\ \A x \in e.expiresOn : x > now

\* getConnection's test of the cached entry: connected, and no expiry or an
\* expiry later than two minutes from now.
CacheHit(entry) ==
  \E e \in entry :
    /\ e.pool \in connected
    /\ \A x \in e.expiresOn : x > now + MarginMinutes

\* How getConnection finds the cache on entry.
Found(entry) ==
  IF entry = Undefined THEN "absent" ELSE IF CacheHit(entry) THEN "hit" ELSE "stale"

\* closeAll is not running and has never run.  `at` is the position in the
\* Map's entries at which a suspended closeAll resumes, 0 when none is running.
NotClosing == [at |-> 0, completed |-> FALSE]

\* No route in progress.
\* No call of the registry has been made from outside.
NoRegistryCall == [method |-> "none"]

\* No tool has been run on its own.
NoToolCall == [tool |-> "none"]

\* A faulty list of the tools to patch, to tell property C38 apart from it:
\* listDatabasesTool is left out.
PatchedToolsWithoutOne ==
  <<"insert_data", "delete_data", "read_data", "update_data", "create_table",
    "create_index", "drop_table", "list_tables", "list_environments",
    "validate_environment_config", "describe_table", "search_schema", "profile_table",
    "inspect_relationships", "test_connection", "explain_query">>

\* The array whose tools wrapToolRun patches (line 867), in its order.
PatchedTools ==
  <<"insert_data", "delete_data", "read_data", "update_data", "create_table",
    "create_index", "drop_table", "list_tables", "list_databases", "list_environments",
    "validate_environment_config", "describe_table", "search_schema", "profile_table",
    "inspect_relationships", "test_connection", "explain_query">>

\* The cases of the switch of the tools/call handler (lines 632-721), in
\* their order.
DispatchedTools ==
  <<"insert_data", "delete_data", "read_data", "update_data", "create_table",
    "create_index", "list_tables", "list_databases", "list_environments",
    "validate_environment_config", "drop_table", "test_connection", "explain_query",
    "describe_table", "search_schema", "profile_table", "inspect_relationships">>

\* The tools the registry of the router holds.
RegisteredTools == {toolRegistry[i].name : i \in DOMAIN toolRegistry}

ToolObjects == Range(PatchedTools) \cup Range(DispatchedTools) \cup RegisteredTools

\* No request has been handled.
NoRequest == [via |-> "none"]

\* index.ts after its handlers are registered (line 721): no tool is patched
\* and the transport is not started.  `wrapped` counts the wrappers set on
\* each tool's run.
NotStarted ==
  [at |-> "handlers", listening |-> FALSE, patched |-> 0,
   wrapped |-> [t \in ToolObjects |-> 0], handled |-> NoRequest]

\* index.ts once its top-level code has run to its end.
Started ==
  [at |-> "serving", listening |-> TRUE, patched |-> Len(PatchedTools),
   wrapped |-> [t \in ToolObjects |->
                  Cardinality({i \in DOMAIN PatchedTools : PatchedTools[i] = t})],
   handled |-> NoRequest]

NoRoute ==
  [stage |-> "none", params |-> Undefined, plan |-> Undefined, status |-> "none",
   result |-> Undefined]

Init ==
  /\ environments = LoadEnvironments(ReadmeProd)
  /\ auditEnabled \in BOOLEAN
  /\ connections = [n \in DOMAIN environments |-> Undefined]
  /\ keys = <<>>
  /\ closeAll = NotClosing
  /\ isReadOnly = FALSE
  /\ intentRouter = IntentRouter(toolRegistry, ~isReadOnly, TRUE)
  /\ routing = [c \in Callers |-> NoRoute]
  /\ connected = {}
  /\ nextPool = 0
  /\ globalPool = Undefined
  /\ now = 0
  /\ pc = [c \in Callers |-> "idle"]
  /\ args = [c \in Callers |-> NoArgs]
  /\ cached = [c \in Callers |-> Undefined]
  /\ newExpires = [c \in Callers |-> Undefined]
  /\ pool = [c \in Callers |-> Undefined]
  /\ result = [c \in Callers |-> NoResult]
  /\ obs = [c \in Callers |-> NoObs]
  /\ registryCall = NoRegistryCall
  /\ toolCall = NoToolCall
  /\ startup = Started

\* The wrapped call ends: its caller has `r`.
Finish(c, r) ==
  /\ pc' = [pc EXCEPT ![c] = "done"]
  /\ result' = [result EXCEPT ![c] = r]

\* getConnection from its first line to its first await, for environment
\* `env`: a cache hit returns the cached pool; otherwise createSqlConfig is
\* called, which for aad asks the identity provider for a token.
EnterGetConnection(c, env) ==
  LET entry == connections[env.name]
      others == {d \in Callers \ {c} : InGetConnection(d) /\ EnvOf(d) = env.name}
  IN /\ cached' = [cached EXCEPT ![c] = {e.pool : e \in entry}]
     /\ IF CacheHit(entry)
        THEN /\ pool' = [pool EXCEPT ![c] = {e.pool : e \in entry}]
             /\ pc' = [pc EXCEPT ![c] = "gotConn"]
             /\ obs' = [obs EXCEPT ![c].found = "hit"]
        ELSE /\ pool' = pool
             /\ pc' = [pc EXCEPT ![c] = "config"]
             /\ obs' = [d \in Callers |->
                  IF d = c
                  THEN [obs[c] EXCEPT !.found = Found(entry), !.peers = others,
                          !.tokenCalls = IF env.authMode = "aad" THEN 1 ELSE 0]
                  ELSE IF d \in others
                  THEN [obs[d] EXCEPT !.peers = @ \cup {c}]
                  ELSE obs[d]]

\* A faulty rejection, to tell property C1 apart from it: the wrapper invokes
\* the tool's run before it rejects.
RejectAfterRun(c, error, rawArgs) ==
  /\ Finish(c, Rejection(error, rawArgs))
  /\ obs' = [obs EXCEPT ![c].runCalls = 1]
  /\ UNCHANGED <<connections, keys, connected, nextPool, globalPool, cached, pool>>

\* A faulty rejection, to tell property C11 apart from it: the wrapper throws
\* the error code.
RejectByThrowing(c, error, rawArgs) ==
  /\ Finish(c, Thrown(error))
  /\ UNCHANGED <<connections, keys, connected, nextPool, globalPool, cached, pool, obs>>

\* A policy rejection (lines 771-813): the result object is returned; nothing
\* else happens.
Reject(c, error, rawArgs) ==
  /\ Finish(c, Rejection(error, rawArgs))
  /\ UNCHANGED <<connections, keys, connected, nextPool, globalPool, cached, pool, obs>>

\* The wrapper from its first line to its first await (lines 754-823).
Call(c, toolName, environment, confirm, tableName) ==
  LET rawArgs == [tool |-> toolName, environment |-> environment, confirm |-> confirm,
                  tableName |-> tableName]
      envConfig == getEnvironment(environment)
  IN /\ pc[c] = "idle"
     /\ args' = [args EXCEPT ![c] = rawArgs]
     /\ \/ /\ envConfig = Undefined
           /\ Finish(c, Thrown("ENVIRONMENT_NOT_FOUND"))
           /\ UNCHANGED <<connections, keys, connected, nextPool, globalPool, cached,
                          pool, obs>>
        \/ \E env \in envConfig :
             LET policy == BuildPolicy(env)
                 check == PolicyCheck(toolName, policy, rawArgs)
             IN \/ /\ check # "PASS"
                   /\ Reject(c, check, rawArgs)
                \/ /\ check = "PASS"
                   /\ EnterGetConnection(c, env)
                   /\ UNCHANGED <<connections, keys, connected, nextPool, globalPool,
                                  result>>
     /\ UNCHANGED <<environments, auditEnabled, isReadOnly, intentRouter, registryCall, toolCall, startup, closeAll, now, newExpires>>

\* After createSqlConfig: close the old pool if it is still connected, then
\* connect.  pool.close() marks the pool disconnected at once.
AfterConfig(c, expiresOn) ==
  /\ newExpires' = [newExpires EXCEPT ![c] = expiresOn]
  /\ IF cached[c] \cap connected # {}
     THEN /\ connected' = connected \ cached[c]
          /\ obs' = [obs EXCEPT ![c].closeCalls = @ + 1, ![c].closed = cached[c]]
          /\ pc' = [pc EXCEPT ![c] = "closing"]
     ELSE /\ connected' = connected
          /\ obs' = [obs EXCEPT ![c].connectCalls = @ + 1]
          /\ pc' = [pc EXCEPT ![c] = "connecting"]
  /\ UNCHANGED <<environments, auditEnabled, isReadOnly, intentRouter, registryCall, toolCall, startup, routing, closeAll, connections, keys, nextPool, globalPool,
                 now, args, cached, pool, result>>

\* getConnection rejects, and with it the wrapper's await at line 823: the
\* wrapper has no handler around it, so the wrapped call rejects.
GetConnectionThrows(c, error) ==
  /\ Finish(c, Thrown(error))
  /\ UNCHANGED <<environments, auditEnabled, isReadOnly, intentRouter, registryCall, toolCall, startup, routing, closeAll, connections, keys, connected, nextPool,
                 globalPool, now, args, cached, newExpires, pool, obs>>

\* createSqlConfig returns for sql and windows authentication.
ConfigCredentials(c) ==
  /\ pc[c] = "config"
  /\ environments[EnvOf(c)].authMode \in {"sql", "windows"}
  /\ environments[EnvOf(c)].hasCredentials
  /\ AfterConfig(c, Undefined)

\* createSqlConfig throws: no username or password.
ConfigMissingCredentials(c) ==
  /\ pc[c] = "config"
  /\ environments[EnvOf(c)].authMode \in {"sql", "windows"}
  /\ ~environments[EnvOf(c)].hasCredentials
  /\ GetConnectionThrows(c, "CONFIG_ERROR")

\* createSqlConfig returns for aad: the token's expiry, or 30 minutes from
\* now when the token carries none.
ConfigToken(c) ==
  /\ pc[c] = "config"
  /\ environments[EnvOf(c)].authMode = "aad"
  /\ \E expiresOnTimestamp \in {Undefined} \cup {Some(now + l) : l \in TokenLifetimes} :
       AfterConfig(c, Some(OrElse(expiresOnTimestamp, now + DefaultTokenMinutes)))

\* getToken throws, or returns no token.
ConfigTokenFails(c) ==
  /\ pc[c] = "config"
  /\ environments[EnvOf(c)].authMode = "aad"
  /\ GetConnectionThrows(c, "AUTHENTICATION_FAILED")

\* pool.close() of the old pool resolves; sql.connect is called.
CloseDone(c) ==
  /\ pc[c] = "closing"
  /\ pc' = [pc EXCEPT ![c] = "connecting"]
  /\ obs' = [obs EXCEPT ![c].connectCalls = @ + 1]
  /\ UNCHANGED <<environments, auditEnabled, isReadOnly, intentRouter, registryCall, toolCall, startup, routing, closeAll, connections, keys, connected, nextPool,
                 globalPool, now, args, cached, newExpires, pool, result>>

\* sql.connect resolves with a new pool: it is cached and returned.
ConnectDone(c) ==
  /\ pc[c] = "connecting"
  /\ nextPool < MaxPools
  /\ nextPool' = nextPool + 1
  /\ connected' = connected \cup {nextPool + 1}
  /\ connections' = [connections EXCEPT ![EnvOf(c)] =
                       Some([pool |-> nextPool + 1, expiresOn |-> newExpires[c]])]
  /\ keys' = IF EnvOf(c) \in Range(keys) THEN keys ELSE Append(keys, EnvOf(c))
  /\ pool' = [pool EXCEPT ![c] = Some(nextPool + 1)]
  /\ pc' = [pc EXCEPT ![c] = "gotConn"]
  /\ UNCHANGED <<environments, auditEnabled, isReadOnly, intentRouter, registryCall, toolCall, startup, routing, closeAll, globalPool, now, args, cached,
                 newExpires, result, obs>>

\* sql.connect rejects (connect error or timeout).
ConnectFails(c) ==
  /\ pc[c] = "connecting"
  /\ GetConnectionThrows(c, "CONNECTION_FAILED")

\* The wrapper resumes with the pool: it stores it in sql.globalPool and
\* calls the tool's own run (lines 826-829), which creates its first request
\* before its first await, on the pool sql.globalPool holds then.
RunStart(c) ==
  /\ pc[c] = "gotConn"
  /\ globalPool' = pool[c]
  /\ obs' = [obs EXCEPT ![c] = [NoObs EXCEPT !.runCalls = 1,
                                               !.queried = InsertTarget(args[c]),
                                               !.own = pool[c],
                                               !.requests = pool[c],
                                               !.requestCount = 1]]
  /\ pc' = [pc EXCEPT ![c] = "running"]
  /\ cached' = [cached EXCEPT ![c] = Undefined]
  /\ newExpires' = [newExpires EXCEPT ![c] = Undefined]
  /\ pool' = [pool EXCEPT ![c] = Undefined]
  /\ UNCHANGED <<environments, auditEnabled, isReadOnly, intentRouter, registryCall, toolCall, startup, routing, closeAll, connections, keys, connected, nextPool,
                 now, args, result>>

\* The tools whose run creates a request after it has awaited an earlier
\* one, and the requests such a run creates: UpdateDataTool counts, then
\* previews or updates.
LaterRequestTools == {"update_data", "delete_data"}
RequestsOfRun == 2

\* The run of the tool resumes after its first query and creates its next
\* request (new sql.Request()): on the pool sql.globalPool holds now.
LaterRequest(c) ==
  /\ pc[c] = "running"
  /\ args[c].tool \in LaterRequestTools
  /\ obs[c].requestCount < RequestsOfRun
  /\ obs' = [obs EXCEPT ![c].requests = @ \cup globalPool, ![c].requestCount = @ + 1]
  /\ UNCHANGED <<environments, auditEnabled, isReadOnly, intentRouter, registryCall, toolCall, startup, routing, closeAll, connections, keys, connected, nextPool,
                 globalPool, now, pc, args, cached, newExpires, pool, result>>

\* AuditLogger.logToolInvocation then log: nothing for level none, nothing
\* when the logger is disabled, and a failed write is swallowed.
Written(auditLevel, writeSucceeds) ==
  IF auditLevel = "none" THEN 0
  ELSE IF ~auditEnabled THEN 0
  ELSE IF writeSucceeds THEN 1 ELSE 0

\* AuditLogger.log reaches fs.appendFileSync: the level is not none and the
\* logger is enabled.
WriteAttempted(auditLevel) == auditLevel # "none" /\ auditEnabled

\* A faulty end of the wrapper, to tell property C31 apart from it: a failed
\* write throws out of the logger into the wrapper's try block, whose catch
\* block logs a failure record and throws the error on.
RunDoneWriteThrows(c, outcome, writeSucceeds) ==
  LET policy == BuildPolicy(environments[EnvOf(c)])
      thrown == WriteAttempted(policy.auditLevel) /\ ~writeSucceeds
  IN /\ pc[c] = "running"
     /\ obs' = [obs EXCEPT ![c].auditCalls = @ + (IF thrown /\ outcome = "returns" THEN 2 ELSE 1),
                           ![c].auditWrites = @ + Written(policy.auditLevel, writeSucceeds),
                           ![c].ran = outcome,
                           ![c].audited = IF outcome = "returns" /\ ~thrown
                                          THEN "result" ELSE "failure",
                           ![c].writeFailed = thrown]
     /\ Finish(c, IF thrown THEN Thrown("AUDIT_FAILED")
                  ELSE IF outcome = "returns" THEN Returned ELSE Thrown("TOOL_FAILED"))
     /\ UNCHANGED <<environments, auditEnabled, isReadOnly, intentRouter, registryCall, toolCall, startup, routing, closeAll, connections, keys, connected, nextPool,
                    globalPool, now, args, cached, newExpires, pool>>

\* The tool's run returns or throws: the wrapper logs the invocation, the
\* result in the try block or a failure record in the catch block, then
\* returns the result or re-throws (lines 829-863).  The logger swallows a
\* failed write.
RunDone(c, outcome, writeSucceeds) ==
  LET policy == BuildPolicy(environments[EnvOf(c)])
  IN /\ pc[c] = "running"
     /\ obs' = [obs EXCEPT ![c].auditCalls = @ + 1,
                           ![c].auditWrites = @ + Written(policy.auditLevel, writeSucceeds),
                           ![c].ran = outcome,
                           ![c].audited = IF outcome = "returns" THEN "result" ELSE "failure",
                           ![c].writeFailed = WriteAttempted(policy.auditLevel) /\ ~writeSucceeds]
     /\ Finish(c, IF outcome = "returns" THEN Returned ELSE Thrown("TOOL_FAILED"))
     /\ UNCHANGED <<environments, auditEnabled, isReadOnly, intentRouter, registryCall, toolCall, startup, routing, closeAll, connections, keys, connected, nextPool,
                    globalPool, now, args, cached, newExpires, pool>>

\* The caller takes the result; it may call again.
Return(c) ==
  /\ pc[c] = "done"
  /\ routing[c].stage = "none"
  /\ pc' = [pc EXCEPT ![c] = "idle"]
  /\ args' = [args EXCEPT ![c] = NoArgs]
  /\ cached' = [cached EXCEPT ![c] = Undefined]
  /\ newExpires' = [newExpires EXCEPT ![c] = Undefined]
  /\ pool' = [pool EXCEPT ![c] = Undefined]
  /\ result' = [result EXCEPT ![c] = NoResult]
  /\ obs' = [obs EXCEPT ![c] = NoObs]
  /\ UNCHANGED <<environments, auditEnabled, isReadOnly, intentRouter, registryCall, toolCall, startup, routing, closeAll, connections, keys, connected, nextPool,
                 globalPool, now>>

\* A minute passes.
Tick ==
  /\ now < MaxClock
  /\ now' = now + 1
  /\ UNCHANGED <<environments, auditEnabled, isReadOnly, intentRouter, registryCall, toolCall, startup, routing, closeAll, connections, keys, connected, nextPool,
                 globalPool, pc, args, cached, newExpires, pool, result, obs>>

\* The server or the network drops the connection of a cached pool.
Disconnect(p) ==
  /\ p \in connected
  /\ \E n \in DOMAIN connections : \E e \in connections[n] : e.pool = p
  /\ connected' = connected \ {p}
  /\ UNCHANGED <<environments, auditEnabled, isReadOnly, intentRouter, registryCall, toolCall, startup, routing, closeAll, connections, keys, nextPool, globalPool,
                 now, pc, args, cached, newExpires, pool, result, obs>>

\* Every resumption of an awaited promise of caller c.
Resume(c) ==
  \/ ConfigCredentials(c)
  \/ ConfigMissingCredentials(c)
  \/ ConfigToken(c)
  \/ ConfigTokenFails(c)
  \/ CloseDone(c)
  \/ ConnectDone(c)
  \/ ConnectFails(c)
  \/ RunStart(c)
  \/ \E outcome \in {"returns", "throws"}, writeSucceeds \in BOOLEAN :
       RunDone(c, outcome, writeSucceeds)
  \/ Return(c)

ConcurrentCall(c) ==
  /\ routing[c].stage = "none"
  /\ \E rawArgs \in ConcurrentRequests :
       Call(c, rawArgs.tool, rawArgs.environment, rawArgs.confirm, rawArgs.tableName)
  /\ UNCHANGED routing

\* A call made while no other call is in flight.
SequentialCall(c, requests) ==
  /\ \A d \in Callers \ {c} : pc[d] = "idle"
  /\ \A d \in Callers : routing[d].stage = "none"
  /\ \E rawArgs \in requests :
       Call(c, rawArgs.tool, rawArgs.environment, rawArgs.confirm, rawArgs.tableName)
  /\ UNCHANGED routing

\* ----------------------------------------------------------- routed calls
\* rawArgs.environment, rawArgs.confirm and rawArgs.tableName as the wrapper
\* reads them from the arguments object the router hands it.
EnvironmentArg(toolArguments) ==
  IF Get(toolArguments, "environment").type = "string"
  THEN Some(Get(toolArguments, "environment").value) ELSE Undefined

ConfirmArg(toolArguments) ==
  LET confirm == Get(toolArguments, "confirm")
  IN CASE confirm = JsBoolean(TRUE) -> "bool:true"
       [] confirm = JsString("true") -> "str:true"
       [] confirm \in {JsUndefined, JsNull, JsBoolean(FALSE)} -> "undefined"

TableNameArg(toolArguments) ==
  IF Get(toolArguments, "tableName").type = "string"
  THEN Some(Get(toolArguments, "tableName").value) ELSE Undefined

\* A faulty end of route, to tell property C19 apart from it: an exception of
\* the routed run is passed on to the caller of route.
SettleRethrows(plan, callResult) ==
  LET best == CHOOSE b \in plan.bestCandidate : TRUE
  IN IF callResult.status = "thrown"
     THEN [status |-> "thrown", result |-> Undefined]
     ELSE [status |-> "returned",
           result |-> Some(RouteSuccess(best.config.name, plan.intent, best.reasons,
                                        callResult, plan.environment))]

\* The try/catch around the routed run (lines 187-205): what route gives its
\* caller once the wrapped run has returned or thrown.
Settle(plan, callResult) ==
  LET best == CHOOSE b \in plan.bestCandidate : TRUE
  IN [status |-> "returned",
      result |-> IF callResult.status = "thrown"
                 THEN Some(RouteFailure("ROUTED_TOOL_FAILED", Some(best.config.name),
                                        "Routed tool '" \o best.config.name \o "' failed: "
                                          \o callResult.error,
                                        plan.environment))
                 ELSE Some(RouteSuccess(best.config.name, plan.intent, best.reasons,
                                        callResult, plan.environment))]

\* intentRouter.route(params) from its first line to its first await: a gate
\* returns its failure, otherwise the winner's wrapped run is called with the
\* merged arguments.
RouteFrom(c, params, plan) ==
  /\ pc[c] = "idle"
  /\ routing[c].stage = "none"
  /\ \A d \in Callers \ {c} : pc[d] = "idle" /\ routing[d].stage = "none"
  /\ IF plan.gate # "PASS"
     THEN /\ routing' = [routing EXCEPT ![c] =
               [stage |-> "done", params |-> Some(params), plan |-> Some(plan),
                status |-> "returned", result |-> Some(GateResult(plan))]]
          /\ UNCHANGED <<environments, auditEnabled, isReadOnly, intentRouter, registryCall, toolCall, startup, closeAll,
                         connections, keys, connected, nextPool, globalPool, now, pc,
                         args, cached, newExpires, pool, result, obs>>
     ELSE /\ routing' = [routing EXCEPT ![c] =
               [stage |-> "running", params |-> Some(params), plan |-> Some(plan),
                status |-> "none", result |-> Undefined]]
          /\ Call(c, (CHOOSE b \in plan.bestCandidate : TRUE).config.name,
                  EnvironmentArg(plan.toolArguments), ConfirmArg(plan.toolArguments),
                  TableNameArg(plan.toolArguments))

Route(c, params) == RouteFrom(c, params, RoutePlan(intentRouter, params))

\* The wrapped run has settled: route returns.
RouteSettle(c) ==
  /\ routing[c].stage = "running"
  /\ pc[c] = "done"
  /\ LET settled == Settle(CHOOSE p \in routing[c].plan : TRUE, result[c])
     IN routing' = [routing EXCEPT ![c] =
          [@ EXCEPT !.stage = "done", !.status = settled.status, !.result = settled.result]]
  /\ UNCHANGED <<environments, auditEnabled, isReadOnly, intentRouter, registryCall, toolCall, startup, closeAll,
                 connections, keys, connected, nextPool, globalPool, now, pc, args,
                 cached, newExpires, pool, result, obs>>

\* The caller of route takes the result; it may call again.
RouteReturn(c) ==
  /\ routing[c].stage = "done"
  /\ routing' = [routing EXCEPT ![c] = NoRoute]
  /\ pc' = [pc EXCEPT ![c] = "idle"]
  /\ args' = [args EXCEPT ![c] = NoArgs]
  /\ cached' = [cached EXCEPT ![c] = Undefined]
  /\ newExpires' = [newExpires EXCEPT ![c] = Undefined]
  /\ pool' = [pool EXCEPT ![c] = Undefined]
  /\ result' = [result EXCEPT ![c] = NoResult]
  /\ obs' = [obs EXCEPT ![c] = NoObs]
  /\ UNCHANGED <<environments, auditEnabled, isReadOnly, intentRouter, registryCall, toolCall, startup, closeAll,
                 connections, keys, connected, nextPool, globalPool, now>>

\* Every call a client may make of the default environment and of production,
\* and a call of the environment without credentials and of one that is not
\* registered.
AllRequests ==
  [tool : CalledTools, environment : {Undefined, Some("prod")}, confirm : ConfirmValues,
   tableName : {Undefined}]
    \cup [tool : {"list_tables"}, environment : {Some("qa"), Some("ghost")},
          confirm : {"undefined"}, tableName : {Undefined}]

\* The server under concurrent clients, with the README's environments.
Next ==
  \/ \E c \in Callers : ConcurrentCall(c) \/ Resume(c)
  \/ Tick

Spec == Init /\ [][Next]_vars

\* One call at a time, while time passes and connections drop.
NextSeq ==
  \/ \E c \in Callers : SequentialCall(c, ConcurrentRequests) \/ Resume(c)
  \/ Tick
  \/ \E p \in PoolIds : Disconnect(p)

SpecSeq == Init /\ [][NextSeq]_vars

\* Concurrent clients of several environments while time passes: an update
\* of the default environment, whose run makes two requests, and a metadata
\* tool on production and on the environment without credentials.
LeafRequests ==
  {[tool |-> "update_data", environment |-> Undefined, confirm |-> "undefined",
    tableName |-> Undefined],
   [tool |-> "list_tables", environment |-> Some("prod"), confirm |-> "undefined",
    tableName |-> Undefined],
   [tool |-> "list_tables", environment |-> Some("qa"), confirm |-> "undefined",
    tableName |-> Undefined]}

LeafCall(c) ==
  /\ routing[c].stage = "none"
  /\ \E rawArgs \in LeafRequests :
       Call(c, rawArgs.tool, rawArgs.environment, rawArgs.confirm, rawArgs.tableName)
  /\ UNCHANGED routing

NextLeaf ==
  \/ \E c \in Callers : LeafCall(c) \/ Resume(c)
  \/ \E c \in Callers : LaterRequest(c)
  \/ Tick

SpecLeaf == Init /\ [][NextLeaf]_vars

\* One client making one call at a time, of any tool with any arguments, under
\* every policy the configuration may give production, with the audit log
\* enabled.
Client == CHOOSE c \in Callers : \A d \in Callers : c <= d

InitPolicy ==
  /\ environments \in {LoadEnvironments(prod) : prod \in ProdConfigs}
  /\ auditEnabled = TRUE
  /\ connections = [n \in DOMAIN environments |-> Undefined]
  /\ keys = <<>>
  /\ closeAll = NotClosing
  /\ isReadOnly = FALSE
  /\ intentRouter = IntentRouter(toolRegistry, ~isReadOnly, TRUE)
  /\ routing = [c \in Callers |-> NoRoute]
  /\ connected = {}
  /\ nextPool = 0
  /\ globalPool = Undefined
  /\ now = 0
  /\ pc = [c \in Callers |-> "idle"]
  /\ args = [c \in Callers |-> NoArgs]
  /\ cached = [c \in Callers |-> Undefined]
  /\ newExpires = [c \in Callers |-> Undefined]
  /\ pool = [c \in Callers |-> Undefined]
  /\ result = [c \in Callers |-> NoResult]
  /\ obs = [c \in Callers |-> NoObs]
  /\ registryCall = NoRegistryCall
  /\ toolCall = NoToolCall
  /\ startup = Started

NextPolicy ==
  \/ SequentialCall(Client, AllRequests)
  \/ Resume(Client)
  \/ Tick

SpecPolicy == InitPolicy /\ [][NextPolicy]_vars

\* closeAll from entry `from` of the Map, in insertion order, to its next await
\* or to its end: the first entry whose pool is connected is closed and
\* closeAll waits for it; when no entry is left the Map is cleared.
CloseAllFrom(from) ==
  LET open == {i \in from .. Len(keys) :
                 \E e \in connections[keys[i]] : e.pool \in connected}
  IN /\ IF open # {}
        THEN LET i == CHOOSE j \in open : \A k \in open : j <= k
             IN /\ connected' = connected \ {e.pool : e \in connections[keys[i]]}
                /\ closeAll' = [closeAll EXCEPT !.at = i + 1]
                /\ UNCHANGED <<connections, keys>>
        ELSE /\ connections' = [n \in DOMAIN connections |-> Undefined]
             /\ keys' = <<>>
             /\ closeAll' = [at |-> 0, completed |-> TRUE]
             /\ UNCHANGED connected
     /\ UNCHANGED <<environments, auditEnabled, isReadOnly, intentRouter, registryCall, toolCall, startup, routing, nextPool, globalPool,
                    now, pc, args, cached, newExpires, pool, result, obs>>

\* The host calls closeAll while no call is in flight.
CloseAllStart ==
  /\ closeAll.at = 0
  /\ \A c \in Callers : pc[c] = "idle"
  /\ CloseAllFrom(1)

\* The pool.close() closeAll awaited resolves.
CloseAllResume ==
  /\ closeAll.at > 0
  /\ CloseAllFrom(closeAll.at)

\* One call at a time, none while closeAll runs; the host may shut the
\* registry down between calls.
NextShutdown ==
  \/ \E c \in Callers : closeAll.at = 0 /\ SequentialCall(c, ConcurrentRequests)
  \/ \E c \in Callers : Resume(c)
  \/ Tick
  \/ CloseAllStart
  \/ CloseAllResume

SpecShutdown == Init /\ [][NextShutdown]_vars

\* ------------------------------------------------------------ the router
\* The registries a router is constructed with: the server's toolRegistry,
\* and two cut-down registries, one of tools that all require arguments and
\* one that is empty.
RequiresArguments == {"explain_query", "profile_table", "update_data"}
Registries ==
  {toolRegistry,
   SelectSeq(toolRegistry, LAMBDA config : config.name \in RequiresArguments),
   <<>>}

\* The arguments objects of the routed requests.
NoToolArguments == Undefined
SelectOne == Some("query" :> JsString("  SELECT 1"))
SelectOneConfirmed == Some("query" :> JsString("select 1") @@ "confirm" :> JsBoolean(TRUE))
UpdateCustomers ==
  "tableName" :> JsString("dbo.customers") @@ "updates" :> JsObject(1)
    @@ "whereClause" :> JsString("id = 1")
InsertAudit == "tableName" :> JsString("audit.log") @@ "data" :> JsObject(1)

\* The calls of intentRouter.route the client makes: prompts that are missing
\* or blank, prompts for each intent with and without the arguments their
\* winner requires (absent, null, blank, empty), with and without
\* confirmIntent, and prompts that name or hint at an environment.
RouteRequests ==
  {RouteParams(JsUndefined, NoToolArguments, JsUndefined, Undefined, Undefined),
   RouteParams(JsString("   "), SelectOne, JsBoolean(TRUE), Undefined, Undefined),
   RouteParams(JsString("hello"), NoToolArguments, JsUndefined, Undefined, Undefined),
   RouteParams(JsString("Show Tables"), NoToolArguments, JsUndefined, Undefined, Undefined),
   RouteParams(JsString("list tables in prod"), NoToolArguments, JsUndefined, Undefined, Undefined),
   RouteParams(JsString("show tables"), NoToolArguments, JsUndefined, Undefined, Some("qa")),
   RouteParams(JsString("show tables"), NoToolArguments, JsUndefined, Undefined, Some("ghost")),
   RouteParams(JsString("run it on live"), SelectOne, JsUndefined, Undefined, Undefined),
   RouteParams(JsString("run it on live"), SelectOneConfirmed, JsUndefined, Undefined, Undefined),
   RouteParams(JsString("users"), Some("tableName" :> JsString("users")), JsUndefined,
               Some("describe_table"), Undefined),
   RouteParams(JsString("explain"), Some("query" :> JsUndefined), JsUndefined, Undefined, Undefined),
   RouteParams(JsString("update the customer email"), NoToolArguments, JsUndefined, Undefined, Undefined),
   RouteParams(JsString("update the customer email"), NoToolArguments, JsBoolean(TRUE), Undefined, Undefined),
   RouteParams(JsString("update the customer email"), Some(UpdateCustomers), JsUndefined, Undefined, Undefined),
   RouteParams(JsString("update the customer email"), Some(UpdateCustomers), JsBoolean(TRUE), Undefined, Undefined),
   RouteParams(JsString("update the customer email"), Some(UpdateCustomers), JsString("yes"), Undefined, Some("prod")),
   RouteParams(JsString("update the customer email"),
               Some("whereClause" :> JsString("  ") @@ "tableName" :> JsNull @@ UpdateCustomers),
               JsUndefined, Undefined, Undefined),
   RouteParams(JsString("update the customer email"),
               Some("updates" :> JsObject(0) @@ UpdateCustomers), JsBoolean(TRUE), Undefined, Undefined),
   RouteParams(JsString("create index on orders"),
               Some("tableName" :> JsString("orders") @@ "columns" :> JsArray(0)
                      @@ "indexName" :> JsString("ix_orders")),
               JsUndefined, Undefined, Undefined),
   RouteParams(JsString("drop table users"), Some("tableName" :> JsString("users")),
               JsBoolean(TRUE), Undefined, Some("prod")),
   RouteParams(JsString("insert the event"), Some(InsertAudit), JsBoolean(TRUE), Undefined, Some("prod")),
   RouteParams(JsString("insert the event"), Some(InsertAudit), JsBoolean(FALSE), Undefined, Undefined)}

\* The tools/call requests the client makes besides.
DirectRequests ==
  {[tool |-> "update_data", environment |-> Undefined, confirm |-> "undefined",
    tableName |-> Some("dbo.customers")],
   [tool |-> "read_data", environment |-> Some("prod"), confirm |-> "undefined",
    tableName |-> Undefined],
   [tool |-> "insert_data", environment |-> Some("prod"), confirm |-> "bool:true",
    tableName |-> Some("Audit.log")]}

\* A production whose policy lists tools and schemas.
ListedProd ==
  EnvironmentConfig("prod", "aad", FALSE, Undefined,
                    Some(<<"read_data", "list_tables", "insert_data", "update_data">>),
                    Some(<<"update_data">>), Undefined, Some("basic"),
                    Some(<<"dbo.*", "Sales">>), Some(<<"audit.*", "*.sensitive_*">>))

\* One client that calls tools and routes prompts, one at a time, while time
\* passes, on a server started with READONLY and REQUIRE_MUTATION_CONFIRMATION
\* set either way.
InitRouter ==
  /\ environments \in {LoadEnvironments(ReadmeProd), LoadEnvironments(ListedProd)}
  /\ auditEnabled = TRUE
  /\ isReadOnly \in BOOLEAN
  /\ \E tools \in Registries, requireConfirmationForMutations \in BOOLEAN :
       intentRouter = IntentRouter(tools, ~isReadOnly, requireConfirmationForMutations)
  /\ routing = [c \in Callers |-> NoRoute]
  /\ connections = [n \in DOMAIN environments |-> Undefined]
  /\ keys = <<>>
  /\ closeAll = NotClosing
  /\ connected = {}
  /\ nextPool = 0
  /\ globalPool = Undefined
  /\ now = 0
  /\ pc = [c \in Callers |-> "idle"]
  /\ args = [c \in Callers |-> NoArgs]
  /\ cached = [c \in Callers |-> Undefined]
  /\ newExpires = [c \in Callers |-> Undefined]
  /\ pool = [c \in Callers |-> Undefined]
  /\ result = [c \in Callers |-> NoResult]
  /\ obs = [c \in Callers |-> NoObs]
  /\ registryCall = NoRegistryCall
  /\ toolCall = NoToolCall
  /\ startup = Started

NextRouter ==
  \/ \E params \in RouteRequests : Route(Client, params)
  \/ RouteSettle(Client)
  \/ RouteReturn(Client)
  \/ SequentialCall(Client, DirectRequests)
  \/ Resume(Client)
  \/ Tick

SpecRouter == InitRouter /\ [][NextRouter]_vars


\* ------------------------------------------------------ routing decisions
\* A read-only production registered under a dashed name.
DashedProd ==
  EnvironmentConfig("prod-db", "aad", FALSE, Some(TRUE), Undefined, Undefined,
                    Undefined, Some("basic"), Undefined, Undefined)

\* A configuration file whose production is "prod-db", and one that lists
\* "prod" after it as well.
DashedFile ==
  [n \in {"dev", "qa", "prod-db"} |->
     CASE n = "dev" -> PlainEnvironment("dev", "sql", TRUE)
       [] n = "qa" -> PlainEnvironment("qa", "windows", FALSE)
       [] n = "prod-db" -> DashedProd]

TwoProductionsFile ==
  [n \in {"dev", "qa", "prod-db", "prod"} |->
     IF n = "prod" THEN ReadmeProd ELSE DashedFile[n]]

\* A prompt alone, and a prompt with arguments for an environment that is
\* not registered, so that the operation it selects is called and rejected.
Prompt(text) == RouteParams(JsString(text), Undefined, JsUndefined, Undefined, Undefined)
PromptWith(text, toolArguments) ==
  RouteParams(JsString(text), Some(toolArguments), JsUndefined, Undefined, Some("ghost"))

\* The calls of intentRouter.route the client makes: prompts that mention an
\* environment by name, by a keyword or not at all; prompts with keywords of
\* one detector, of several and of none, the latter with and without SQL in
\* the arguments; prompts on which several operations score the same.
DecideRequests ==
  {Prompt("show tables in prod"),
   Prompt("Show tables"),
   RouteParams(JsString("show tables in prod"), Undefined, JsUndefined, Undefined, Some("qa")),
   RouteParams(JsString("show tables in prod"), Some("environment" :> JsString("ghost")),
               JsUndefined, Undefined, Some("qa")),
   RouteParams(JsString("show tables in prod"), Some("environment" :> JsString("qa")),
               JsUndefined, Undefined, Undefined),
   RouteParams(JsString("Show tables"), Some("environment" :> JsString("qa")),
               JsUndefined, Undefined, Undefined),
   Prompt("copy live data to qa"),
   Prompt("select on Prod DB"),
   Prompt("describe the delivery table"),
   Prompt("hello"),
   Prompt("select it on staging"),
   Prompt("select the local staging copy"),
   Prompt("drop table users and select the count"),
   Prompt("update the report"),
   Prompt("profile the schema"),
   Prompt("describe the view"),
   Prompt("fetch rows"),
   PromptWith("go", "query" :> JsString("  SELECT 1")),
   PromptWith("go", "query" :> JsString("Delete from t")),
   PromptWith("go", "sql" :> JsString("insert into t values (1)")),
   PromptWith("go", "query" :> JsNumber(1) @@ "sql" :> JsString("CREATE TABLE t (a int)")),
   PromptWith("go", "query" :> JsString("exec sp_who")),
   PromptWith("go", "query" :> JsString(" ") @@ "sql" :> JsString("drop table t")),
   PromptWith("go", "tablePattern" :> JsString("cust%")),
   PromptWith("go", "query" :> JsString("exec sp_who") @@ "columnPattern" :> JsString("%id")),
   PromptWith("schema", EmptyObject),
   RouteParams(JsString("schema"), Undefined, JsUndefined, Some("search_schema"), Some("ghost")),
   RouteParams(JsString("schema"), Undefined, JsUndefined, Some("drop_table"), Some("ghost")),
   PromptWith("search the schema", EmptyObject),
   PromptWith("update the customer email", UpdateCustomers),
   RouteParams(JsString("update the customer email"), Some(UpdateCustomers), JsBoolean(TRUE),
               Undefined, Some("ghost"))}

\* The tools/call request the client makes besides.
DecideDirectRequests ==
  {[tool |-> "list_tables", environment |-> Undefined, confirm |-> "undefined",
    tableName |-> Undefined]}

\* One client that routes prompts, one at a time, while time passes, on a
\* server started with READONLY set either way, REQUIRE_MUTATION_CONFIRMATION
\* left unset and either configuration file.
InitDecide ==
  /\ environments \in {DashedFile, TwoProductionsFile}
  /\ auditEnabled = TRUE
  /\ isReadOnly \in BOOLEAN
  /\ intentRouter = IntentRouter(toolRegistry, ~isReadOnly, TRUE)
  /\ routing = [c \in Callers |-> NoRoute]
  /\ connections = [n \in DOMAIN environments |-> Undefined]
  /\ keys = <<>>
  /\ closeAll = NotClosing
  /\ connected = {}
  /\ nextPool = 0
  /\ globalPool = Undefined
  /\ now = 0
  /\ pc = [c \in Callers |-> "idle"]
  /\ args = [c \in Callers |-> NoArgs]
  /\ cached = [c \in Callers |-> Undefined]
  /\ newExpires = [c \in Callers |-> Undefined]
  /\ pool = [c \in Callers |-> Undefined]
  /\ result = [c \in Callers |-> NoResult]
  /\ obs = [c \in Callers |-> NoObs]
  /\ registryCall = NoRegistryCall
  /\ toolCall = NoToolCall
  /\ startup = Started

NextDecide ==
  \/ \E params \in DecideRequests : Route(Client, params)
  \/ RouteSettle(Client)
  \/ RouteReturn(Client)
  \/ SequentialCall(Client, DecideDirectRequests)
  \/ Resume(Client)
  \/ Tick

SpecDecide == InitDecide /\ [][NextDecide]_vars


\* ------------------------------------------------- calls of the registry
\* An array of strings of the file.
Strings(texts) == JsArrayOf([i \in DOMAIN texts |-> JsString(texts[i])])

\* An environment of the file with SQL credentials, its password a secret.
FileEnvironment(name, database) ==
  "name" :> JsString(name) @@ "server" :> JsString("sql.example.net")
    @@ "database" :> JsString(database) @@ "authMode" :> JsString("sql")
    @@ "username" :> JsString("app") @@ "password" :> JsString("${secret:DB_PASS}")

\* dev is restricted to its database, whatever its lists say; its connection
\* options are objects in objects.
FileDev ==
  "allowedDatabases" :> Strings(<<"Other">>) @@ "deniedDatabases" :> Strings(<<"appdb">>)
    @@ "deniedSchemas" :> Strings(<<"audit_*">>)
    @@ "options" :> JsObjectOf("appName" :> JsString("mcp-${secret:APP}-${secret:}")
                                 @@ "retry" :> JsObjectOf("key" :> JsString("${secret:DB_PASS")
                                                            @@ "count" :> JsNumber(3)))
    @@ FileEnvironment("dev", "AppDb")

\* ops has server-level access, with the lists given.
FileOps(allowedDatabases, deniedDatabases) ==
  "accessLevel" :> JsString("server") @@ "allowedDatabases" :> allowedDatabases
    @@ "deniedDatabases" :> deniedDatabases @@ "allowedSchemas" :> Strings(<<>>)
    @@ FileEnvironment("ops", "master")

\* prod says that its access is database-level, and filters schemas; one of
\* its databases is named by a secret.
FileProd ==
  "accessLevel" :> JsString("database") @@ "readonly" :> JsBoolean(TRUE)
    @@ "allowedDatabases" :> Strings(<<"${secret:TENANT_DB}", "Sales">>)
    @@ "allowedSchemas" :> Strings(<<"dbo.*", "Sales">>)
    @@ "deniedSchemas" :> Strings(<<"audit.*", "*.sensitive_*">>)
    @@ FileEnvironment("prod", "Sales")

\* The configuration files: config.environments of each.
ConfigFiles ==
  {<<FileDev, FileOps(allowedDatabases, deniedDatabases), FileProd>> :
     allowedDatabases \in {JsUndefined, JsString("*"), Strings(<<>>), Strings(<<"Sales", "HR">>)},
     deniedDatabases \in {JsUndefined, Strings(<<"Master", "sales">>)}}

\* process.env: the variables that are set.
ProcessEnvs ==
  {<<>>,
   "DB_PASS" :> "hunter2",
   "DB_PASS" :> "hunter2" @@ "APP" :> "" @@ "TENANT_DB" :> "Tenant1"}

\* The arguments the registry is called with.
EnvironmentNames == {Undefined, Some(""), Some("dev"), Some("ops"), Some("prod"), Some("ghost"), Some("DEV")}
DatabaseNames ==
  {"AppDb", "appdb", "Other", "Sales", "SALES", "hr", "Master", "master", "tempdb", "*"}
SchemaNames == {"dbo", "Sales", "sales", "AUDIT", "audit_trail", "hr"}
TableNames == {"", "log", "sensitive_pay", "orders"}
PatternValues ==
  {"", "audit_log", "AUDIT_LOG", "myaudit_log", "audit_", "audit", "audit_\nlog",
   "audit_trail_log", "a.b", "axb", "dbo.orders", "DBO.Sensitive_Pay"}
Patterns == {"", "*", "audit_*", "audit_*log", "a.b", "*.sensitive_*", "dbo.*", "AUDIT"}

\* The variables of the server, which a call of the registry leaves alone.
serverVars ==
  <<environments, auditEnabled, isReadOnly, intentRouter, toolCall, startup, routing, connections, keys,
    closeAll, connected, nextPool, globalPool, now, pc, args, cached, newExpires, pool,
    result, obs>>

\* A call of a method of the registry and its answer: {} when the method
\* threw, {value} when it returned value.
Answer(method, arguments, answer) ==
  [method |-> method, arguments |-> arguments, answer |-> answer]

\* The registry after its constructor has loaded the file.
InitRegistry ==
  /\ \E file \in ConfigFiles, processEnv \in ProcessEnvs :
       /\ environments = loadFromFile(file, processEnv)
       /\ registryCall = Answer("loadFromFile", [file |-> file, processEnv |-> processEnv],
                                Some(ResolvedEnvironments(file, processEnv)))
  /\ auditEnabled = TRUE
  /\ isReadOnly = FALSE
  /\ intentRouter = IntentRouter(toolRegistry, ~isReadOnly, TRUE)
  /\ routing = [c \in Callers |-> NoRoute]
  /\ connections = [n \in DOMAIN environments |-> Undefined]
  /\ keys = <<>>
  /\ closeAll = NotClosing
  /\ connected = {}
  /\ nextPool = 0
  /\ globalPool = Undefined
  /\ now = 0
  /\ pc = [c \in Callers |-> "idle"]
  /\ args = [c \in Callers |-> NoArgs]
  /\ cached = [c \in Callers |-> Undefined]
  /\ newExpires = [c \in Callers |-> Undefined]
  /\ pool = [c \in Callers |-> Undefined]
  /\ result = [c \in Callers |-> NoResult]
  /\ obs = [c \in Callers |-> NoObs]
  /\ toolCall = NoToolCall
  /\ startup = Started

GetEnvironment(name) ==
  /\ registryCall = NoRegistryCall
  /\ registryCall' = Answer("getEnvironment", [name |-> name], getEnvironment(name))
  /\ UNCHANGED serverVars

IsDatabaseAllowed(environmentName, databaseName) ==
  /\ registryCall = NoRegistryCall
  /\ registryCall' =
       Answer("isDatabaseAllowed",
              [environmentName |-> environmentName, databaseName |-> databaseName],
              IF getEnvironment(environmentName) = Undefined THEN Undefined
              ELSE Some(isDatabaseAllowed(environmentName, databaseName)))
  /\ UNCHANGED serverVars

IsSchemaAllowed(environmentName, schemaName, tableName) ==
  /\ registryCall = NoRegistryCall
  /\ registryCall' =
       Answer("isSchemaAllowed",
              [environmentName |-> environmentName, schemaName |-> schemaName,
               tableName |-> tableName],
              IF getEnvironment(environmentName) = Undefined THEN Undefined
              ELSE Some(isSchemaAllowed(environmentName, schemaName, tableName)))
  /\ UNCHANGED serverVars

MatchesPattern(value, pattern) ==
  /\ registryCall = NoRegistryCall
  /\ registryCall' = Answer("matchesPattern", [value |-> value, pattern |-> pattern],
                            Some(matchesPattern(value, pattern)))
  /\ UNCHANGED serverVars

\* The caller takes the answer; the registry may be called again.
TakeAnswer ==
  /\ registryCall # NoRegistryCall
  /\ registryCall' = NoRegistryCall
  /\ UNCHANGED serverVars

NextRegistry ==
  \/ TakeAnswer
  \/ \E name \in EnvironmentNames : GetEnvironment(name)
  \/ \E environmentName \in EnvironmentNames, databaseName \in DatabaseNames :
       IsDatabaseAllowed(environmentName, databaseName)
  \/ \E environmentName \in EnvironmentNames, schemaName \in SchemaNames, tableName \in TableNames :
       IsSchemaAllowed(environmentName, schemaName, tableName)
  \/ \E value \in PatternValues, pattern \in Patterns : MatchesPattern(value, pattern)

SpecRegistry == InitRegistry /\ [][NextRegistry]_vars


\* --------------------------------------------------------- ReadDataTool
\* The regular expressions of the tool are written out over strings.  Those
\* with the flag i are tested on the text in lower case.
IsSpace(ch) == ch \in {" ", "\t", "\n", "\r"}
IsDigit(ch) == ch # "" /\ ch \in Characters("0123456789")

\* `literal` is at position i of `text`.
At(text, i, literal) ==
  i >= 1 /\ i + Len(literal) - 1 <= Len(text) /\ SubSeq(text, i, i + Len(literal) - 1) = literal

\* The position after the whitespace that starts at position i, and after
\* the digits that start at position i.
AfterSpaces(text, i) ==
  First({j \in i .. Len(text) + 1 : j > Len(text) \/ ~IsSpace(CharAt(text, j))})
AfterDigits(text, i) ==
  First({j \in i .. Len(text) + 1 : j > Len(text) \/ ~IsDigit(CharAt(text, j))})

\* /a\s+b/, /a\s*b/ and /a.*?b/ (the dot matches no line terminator).
Spaced(text, a, b) ==
  \E i \in 1 .. Len(text) :
    /\ At(text, i, a) /\ IsSpace(CharAt(text, i + Len(a)))
    /\ At(text, AfterSpaces(text, i + Len(a)), b)
Close(text, a, b) ==
  \E i \in 1 .. Len(text) : At(text, i, a) /\ At(text, AfterSpaces(text, i + Len(a)), b)
SameLine(text, from, to) == \A k \in from .. to : ~IsLineTerminator(CharAt(text, k))
Later(text, a, b) ==
  \E i \in 1 .. Len(text) :
    /\ At(text, i, a)
    /\ \E j \in (i + Len(a)) .. Len(text) :
         At(text, j, b) /\ SameLine(text, i + Len(a), j - 1)

\* /\bword\s+\d+\b/ with `word` itself "a\s+b" when `second` is not empty:
\* the position after the digits, 0 when there is no match.
NumberedAt(text, i, first, second) ==
  LET afterFirst == i + Len(first)
      second0 == AfterSpaces(text, afterFirst)
      afterWord == IF second = "" THEN afterFirst ELSE second0 + Len(second)
      digits == AfterSpaces(text, afterWord)
      end == AfterDigits(text, digits)
  IN IF /\ At(text, i, first) /\ WordBoundary(text, i)
        /\ (second # "" => IsSpace(CharAt(text, afterFirst)) /\ At(text, second0, second))
        /\ IsSpace(CharAt(text, afterWord))
        /\ end > digits
        /\ ~IsWordAt(text, end)
     THEN end ELSE 0

\* String(n) and parseInt of a run of digits.
RECURSIVE NumberToString(_)
NumberToString(n) ==
  IF n < 10 THEN CharAt("0123456789", n + 1)
  ELSE NumberToString(n \div 10) \o CharAt("0123456789", (n % 10) + 1)
RECURSIVE ParseDigits(_)
ParseDigits(digits) ==
  IF digits = "" THEN 0
  ELSE 10 * ParseDigits(SubSeq(digits, 1, Len(digits) - 1))
         + (CHOOSE d \in 0 .. 9 : CharAt("0123456789", d + 1) = CharAt(digits, Len(digits)))

Min(a, b) == IF a <= b THEN a ELSE b
Max(a, b) == IF a >= b THEN a ELSE b

DANGEROUS_KEYWORDS ==
  <<"delete", "drop", "update", "insert", "alter", "create", "truncate", "exec", "execute",
    "merge", "replace", "grant", "revoke", "commit", "rollback", "transaction", "begin",
    "declare", "set", "use", "backup", "restore", "kill", "shutdown", "waitfor",
    "openrowset", "opendatasource", "openquery", "openxml", "bulk", "into">>

\* The keywords the patterns of injection look for after ";" and, without
\* the last five, after UNION SELECT and in comments.
StatementKeywords ==
  <<"delete", "drop", "update", "insert", "alter", "create", "truncate", "exec", "execute",
    "merge", "replace", "grant", "revoke">>
InjectedKeywords == SubSeq(StatementKeywords, 1, 9)

\* /SELECT\s+.*?\s+INTO\s+/i
SelectInto(text) ==
  \E i \in 1 .. Len(text) :
    /\ At(text, i, "select")
    /\ \E j \in (i + 8) .. Len(text) :
         /\ At(text, j, "into") /\ IsSpace(CharAt(text, j + 4))
         /\ \E from \in (i + 7) .. j :
              /\ \A k \in (i + 6) .. (from - 1) : IsSpace(CharAt(text, k))
              /\ \E to \in (from - 1) .. (j - 2) :
                   /\ SameLine(text, from, to)
                   /\ \A k \in (to + 1) .. (j - 1) : IsSpace(CharAt(text, k))

\* /UNION\s+(?:ALL\s+)?SELECT.*?(DELETE|...)/i
UnionInjection(text) ==
  \E i \in 1 .. Len(text) :
    /\ At(text, i, "union") /\ IsSpace(CharAt(text, i + 5))
    /\ LET next == AfterSpaces(text, i + 5)
           select == IF At(text, next, "all") /\ IsSpace(CharAt(text, next + 3))
                        /\ At(text, AfterSpaces(text, next + 3), "select")
                     THEN AfterSpaces(text, next + 3) ELSE next
       IN /\ At(text, select, "select")
          /\ \E keyword \in Range(InjectedKeywords), j \in (select + 6) .. Len(text) :
               At(text, j, keyword) /\ SameLine(text, select + 6, j - 1)

\* /\/\*.*?(DELETE|...).*?\*\//i
BlockCommentInjection(text) ==
  \E i \in 1 .. Len(text) :
    /\ At(text, i, "/*")
    /\ \E keyword \in Range(InjectedKeywords), j \in (i + 2) .. Len(text) :
         /\ At(text, j, keyword)
         /\ \E k \in (j + Len(keyword)) .. Len(text) :
              At(text, k, "*/") /\ SameLine(text, i + 2, k - 1)

\* DANGEROUS_PATTERNS.some(pattern => pattern.test(query)); `text` is the
\* query in lower case.
MatchesDangerousPattern(query) ==
  LET text == ToLowerCase(query)
  IN \/ SelectInto(text)
     \/ \E keyword \in Range(StatementKeywords) : Close(text, ";", keyword)
     \/ UnionInjection(text)
     \/ \E keyword \in Range(InjectedKeywords) : Later(text, "--", keyword)
     \/ BlockCommentInjection(text)
     \/ Close(text, "exec", "(") \/ Close(text, "execute", "(")
     \/ Includes(text, "sp_") \/ Includes(text, "xp_")
     \/ Spaced(text, "bulk", "insert")
     \/ Includes(text, "openrowset") \/ Includes(text, "opendatasource")
     \/ Includes(query, "@@")
     \/ Includes(text, "system_user") \/ Includes(text, "user_name")
     \/ Includes(text, "db_name") \/ Includes(text, "host_name")
     \/ Spaced(text, "waitfor", "delay") \/ Spaced(text, "waitfor", "time")
     \/ \E i \in 1 .. Len(query) :
          At(query, i, ";") /\ IsWordAt(query, AfterSpaces(query, i + 1))
     \/ \E name \in {"char", "nchar", "ascii"}, i \in 1 .. Len(text) :
          /\ At(text, i, "+") /\ At(text, AfterSpaces(text, i + 1), name)
          /\ At(text, AfterSpaces(text, AfterSpaces(text, i + 1) + Len(name)), "(")

\* query.replace(/--.*$/gm, ''): a line comment goes, up to the end of its line.
RECURSIVE RemoveLineComments(_, _)
RemoveLineComments(query, inComment) ==
  IF query = "" THEN ""
  ELSE IF inComment
  THEN IF IsLineTerminator(CharAt(query, 1))
       THEN RemoveLineComments(query, FALSE)
       ELSE RemoveLineComments(SubSeq(query, 2, Len(query)), TRUE)
  ELSE IF At(query, 1, "--") THEN RemoveLineComments(SubSeq(query, 3, Len(query)), TRUE)
  ELSE CharAt(query, 1) \o RemoveLineComments(SubSeq(query, 2, Len(query)), FALSE)

\* .replace(/\/\*[\s\S]*?\*\//g, ''): a block comment goes, if it is closed.
RECURSIVE RemoveBlockComments(_)
RemoveBlockComments(query) ==
  IF query = "" THEN ""
  ELSE LET closing == {j \in 3 .. Len(query) : At(query, j, "*/")}
       IN IF At(query, 1, "/*") /\ closing # {}
          THEN RemoveBlockComments(SubSeq(query, First(closing) + 2, Len(query)))
          ELSE CharAt(query, 1) \o RemoveBlockComments(SubSeq(query, 2, Len(query)))

\* .replace(/\s+/g, ' ')
RECURSIVE NormalizeWhitespace(_)
NormalizeWhitespace(query) ==
  IF query = "" THEN ""
  ELSE IF IsSpace(CharAt(query, 1))
  THEN " " \o NormalizeWhitespace(SubSeq(query, AfterSpaces(query, 1), Len(query)))
  ELSE CharAt(query, 1) \o NormalizeWhitespace(SubSeq(query, 2, Len(query)))

\* cleanQuery.split(';').filter(stmt => stmt.trim().length > 0).length
RECURSIVE Statements(_)
Statements(cleanQuery) ==
  LET semicolons == {i \in 1 .. Len(cleanQuery) : CharAt(cleanQuery, i) = ";"}
      end == IF semicolons = {} THEN Len(cleanQuery) + 1 ELSE First(semicolons)
      first == IF Trim(SubSeq(cleanQuery, 1, end - 1)) # "" THEN 1 ELSE 0
  IN IF semicolons = {} THEN first
     ELSE first + Statements(SubSeq(cleanQuery, end + 1, Len(cleanQuery)))

\* The longest query validateQuery lets through.
MaxQueryLength == 10000

\* ReadDataTool.validateQuery: isValid.
validateQuery(query) ==
  LET cleanQuery == Trim(NormalizeWhitespace(RemoveBlockComments(RemoveLineComments(query, FALSE))))
      upperQuery == ToLowerCase(cleanQuery)
  IN /\ query # ""
     /\ cleanQuery # ""
     /\ StartsWith(upperQuery, "select")
     /\ ~\E keyword \in Range(DANGEROUS_KEYWORDS), i \in 1 .. Len(upperQuery) :
           /\ At(upperQuery, i, keyword)
           /\ ~IsWordAt(upperQuery, i - 1) /\ ~IsWordAt(upperQuery, i + Len(keyword))
     /\ ~MatchesDangerousPattern(query)
     /\ Statements(cleanQuery) <= 1
     /\ ~(Includes(query, "CHAR(") \/ Includes(query, "NCHAR(") \/ Includes(query, "ASCII("))
     /\ Len(query) <= MaxQueryLength

\* ReadDataTool.enforceRowLimit: the query, with TOP maxRows after SELECT or
\* SELECT DISTINCT unless the query has a TOP or a LIMIT of its own; and
\* limitAdded.
hasTop(query) ==
  \E i \in 1 .. Len(query) : NumberedAt(ToLowerCase(query), i, "select", "top") # 0
hasLimit(query) ==
  \E i \in 1 .. Len(query) : NumberedAt(ToLowerCase(query), i, "limit", "") # 0

\* query.replace(/^(\s*SELECT\s+)(DISTINCT\s+)?/i, `$1$2TOP ${maxRows} `)
InjectTop(query, maxRows) ==
  LET text == ToLowerCase(query)
      select == AfterSpaces(text, 1)
      afterSelect == AfterSpaces(text, select + 6)
      afterDistinct == IF At(text, afterSelect, "distinct") /\ IsSpace(CharAt(text, afterSelect + 8))
                       THEN AfterSpaces(text, afterSelect + 8) ELSE afterSelect
  IN IF At(text, select, "select") /\ IsSpace(CharAt(text, select + 6))
     THEN SubSeq(query, 1, afterDistinct - 1) \o "TOP " \o NumberToString(maxRows) \o " "
            \o SubSeq(query, afterDistinct, Len(query))
     ELSE query

enforceRowLimit(query, maxRows) ==
  IF hasTop(query) \/ hasLimit(query)
  THEN [query |-> query, limitAdded |-> FALSE]
  ELSE [query |-> InjectTop(query, maxRows), limitAdded |-> TRUE]

\* this.defaultMaxRows when MAX_ROWS_DEFAULT is not set, and the bounds of
\* the caller's maxRows.
defaultMaxRows == 1000
MaxRowsCeiling == 100000

\* ReadDataTool.resolveMaxRows; params.maxRows is a number or undefined.
resolveMaxRows(params) ==
  LET envPolicyMax == params.environmentPolicy.maxRowsDefault
      userMaxRows == params.maxRows
      effectiveMax == IF Truthy(userMaxRows)
                      THEN Min(Max(userMaxRows.value, 1), MaxRowsCeiling)
                      ELSE defaultMaxRows
  IN IF envPolicyMax # Undefined /\ envPolicyMax # Some(0)
     THEN Min(effectiveMax, CHOOSE m \in envPolicyMax : TRUE)
     ELSE effectiveMax

\* ReadDataTool.sanitizeResult, by the number of records: no more than
\* maxRecords are kept.
maxRecords == 10000
sanitizeResult(records) == Min(records, maxRecords)

\* The server: the number of rows of the recordset of a SELECT statement of
\* which `matching` rows match, after its own TOP if it has one.  The
\* statement may follow "USE [database]; ".
ServerTop(statement) ==
  LET text == ToLowerCase(statement)
      selects == {i \in 1 .. Len(text) : At(text, i, "select") /\ WordBoundary(text, i)}
      select == First(selects)
      afterSelect == AfterSpaces(text, select + 6)
      afterDistinct == IF At(text, afterSelect, "distinct")
                       THEN AfterSpaces(text, afterSelect + 8) ELSE afterSelect
      digits == AfterSpaces(text, afterDistinct + 3)
  IN IF selects # {} /\ At(text, afterDistinct, "top") /\ AfterDigits(text, digits) > digits
     THEN Some(ParseDigits(SubSeq(text, digits, AfterDigits(text, digits) - 1)))
     ELSE Undefined
Recordset(statement, matching) ==
  IF ServerTop(statement) = Undefined THEN matching
  ELSE Min(matching, CHOOSE n \in ServerTop(statement) : TRUE)

\* What a tool's run gave: the fields of its result the properties read, and
\* the statements it sent to the server, in order.
ToolFailure(error, statements) ==
  [success |-> FALSE, error |-> error, recordCount |-> 0, statements |-> statements,
   autoLimited |-> FALSE, rowsAffected |-> 0]
ToolSuccess(statements, recordCount, autoLimited, rowsAffected) ==
  [success |-> TRUE, error |-> "", recordCount |-> recordCount, statements |-> statements,
   autoLimited |-> autoLimited, rowsAffected |-> rowsAffected]

\* ReadDataTool.run(params); params.environment and params.environmentPolicy
\* are the wrapper's.  `recordset` is the server's answer: {} when the query
\* is rejected, {n} when n rows match the query.  The names of databases hold
\* no "]".
ReadDataToolRun(params, recordset) ==
  IF params.database \notin {Undefined, Some("")}
     /\ ~isDatabaseAllowed(Some(params.environment), CHOOSE db \in params.database : TRUE)
  THEN ToolFailure("DATABASE_ACCESS_DENIED", <<>>)
  ELSE IF ~validateQuery(params.query) THEN ToolFailure("SECURITY_VALIDATION_FAILED", <<>>)
  ELSE LET maxRowsToUse == resolveMaxRows(params)
           limited == enforceRowLimit(params.query, maxRowsToUse)
           finalQuery == IF params.database \notin {Undefined, Some("")}
                         THEN "USE [" \o (CHOOSE db \in params.database : TRUE) \o "]; " \o limited.query
                         ELSE limited.query
       IN IF recordset = Undefined
          THEN ToolFailure("QUERY_EXECUTION_FAILED", <<finalQuery>>)
          ELSE ToolSuccess(<<finalQuery>>,
                           sanitizeResult(Recordset(finalQuery, CHOOSE n \in recordset : TRUE)),
                           limited.limitAdded, 0)

\* ------------------------------------------- UpdateDataTool, DeleteDataTool
MAX_ROWS_DEFAULT == 1000

\* !whereClause || whereClause.trim() === ''
IsBlankWhere(whereClause) == ~Truthy(whereClause) \/ Trim(whereClause.value) = ""

\* maxRows || MAX_ROWS_DEFAULT
maxAllowed(params) == IF Truthy(params.maxRows) THEN params.maxRows.value ELSE MAX_ROWS_DEFAULT

countQuery(params) ==
  "SELECT COUNT(*) as affectedRows FROM " \o params.tableName \o " WHERE " \o params.whereClause.value
previewQuery(params) ==
  "SELECT TOP 10 * FROM " \o params.tableName \o " WHERE " \o params.whereClause.value

\* Object.keys(updates).map(...).join(", ")
RECURSIVE setClause(_, _)
setClause(columns, index) ==
  IF columns = <<>> THEN ""
  ELSE "[" \o Head(columns) \o "] = @update_" \o NumberToString(index)
         \o (IF Len(columns) > 1 THEN ", " ELSE "") \o setClause(Tail(columns), index + 1)

\* UpdateDataTool.run(params).  The server's answers: `counted` to the count
\* query, `previewed` to the preview query, `modified` to the UPDATE, each {}
\* when the server rejects the statement.  The table is shared with other
\* sessions, so the rows the UPDATE modifies need not be those counted.
UpdateDataToolRun(params, counted, previewed, modified) ==
  LET count == countQuery(params)
      update == "UPDATE " \o params.tableName \o " SET " \o setClause(params.updates, 0)
                  \o " WHERE " \o params.whereClause.value
      affectedRows == CHOOSE n \in counted : TRUE
  IN IF IsBlankWhere(params.whereClause) THEN ToolFailure("MISSING_WHERE_CLAUSE", <<>>)
     ELSE IF counted = Undefined THEN ToolFailure("UPDATE_FAILED", <<count>>)
     ELSE IF affectedRows = 0 THEN ToolFailure("NO_ROWS_MATCHED", <<count>>)
     ELSE IF affectedRows > maxAllowed(params) THEN ToolFailure("TOO_MANY_ROWS", <<count>>)
     ELSE IF ~Truthy(params.confirmUpdate)
     THEN IF previewed = Undefined
          THEN ToolFailure("UPDATE_FAILED", <<count, previewQuery(params)>>)
          ELSE ToolFailure("CONFIRMATION_REQUIRED", <<count, previewQuery(params)>>)
     ELSE IF modified = Undefined THEN ToolFailure("UPDATE_FAILED", <<count, update>>)
     ELSE ToolSuccess(<<count, update>>, 0, FALSE, CHOOSE n \in modified : TRUE)

\* DeleteDataTool.run(params), with the server's answers as above.
DeleteDataToolRun(params, counted, previewed, modified) ==
  LET count == countQuery(params)
      delete == "DELETE FROM " \o params.tableName \o " WHERE " \o params.whereClause.value
      affectedRows == CHOOSE n \in counted : TRUE
  IN IF IsBlankWhere(params.whereClause) THEN ToolFailure("MISSING_WHERE_CLAUSE", <<>>)
     ELSE IF counted = Undefined THEN ToolFailure("DELETE_FAILED", <<count>>)
     ELSE IF affectedRows = 0 THEN ToolFailure("NO_ROWS_MATCHED", <<count>>)
     ELSE IF affectedRows > maxAllowed(params) THEN ToolFailure("TOO_MANY_ROWS", <<count>>)
     ELSE IF ~Truthy(params.confirmDelete)
     THEN IF previewed = Undefined
          THEN ToolFailure("DELETE_FAILED", <<count, previewQuery(params)>>)
          ELSE ToolFailure("CONFIRMATION_REQUIRED", <<count, previewQuery(params)>>)
     ELSE IF modified = Undefined THEN ToolFailure("DELETE_FAILED", <<count, delete>>)
     ELSE ToolSuccess(<<count, delete>>, 0, FALSE, CHOOSE n \in modified : TRUE)

\* ----------------------------------------------------------- runs of tools
\* The file of the runs: dev sets no cap, ops has server-level access to
\* "Sales" and caps the rows at maxRowsDefault.
CappedFile(maxRowsDefault) ==
  <<FileDev,
    "maxRowsDefault" :> JsNumber(maxRowsDefault) @@ FileOps(Strings(<<"Sales">>), JsUndefined)>>

Caps == {1, 2}
Queries ==
  {"", "SELECT * FROM t", "select distinct name from t", "SELECT TOP 3 * FROM t",
   "SELECT TOP 1 * FROM t", "SELECT * FROM t WHERE note <> 'limit 5'", "SELECT*FROM t",
   "/* all */ SELECT * FROM t", "SELECT * FROM t; DROP TABLE t",
   "SELECT name -- update later\nFROM t", "SELECT name INTO u FROM t"}
RowCounts == {Undefined, Some(0), Some(2), Some(4)}
MaxRowsValues == {JsUndefined, JsNumber(1), JsNumber(3)}
WhereClauses == {JsUndefined, JsString(""), JsString("  "), JsString("id = 7"), JsString("1=1")}
Confirmations == {JsUndefined, JsBoolean(FALSE), JsBoolean(TRUE)}

Ran(tool, params, answers, answer) ==
  [tool |-> tool, params |-> params, answers |-> answers, result |-> answer]

\* The tools after the registry has loaded the file.
InitTools ==
  /\ \E maxRowsDefault \in Caps :
       environments = loadFromFile(CappedFile(maxRowsDefault), <<>>)
  /\ auditEnabled = TRUE
  /\ isReadOnly = FALSE
  /\ intentRouter = IntentRouter(toolRegistry, ~isReadOnly, TRUE)
  /\ routing = [c \in Callers |-> NoRoute]
  /\ connections = [n \in DOMAIN environments |-> Undefined]
  /\ keys = <<>>
  /\ closeAll = NotClosing
  /\ connected = {}
  /\ nextPool = 0
  /\ globalPool = Undefined
  /\ now = 0
  /\ pc = [c \in Callers |-> "idle"]
  /\ args = [c \in Callers |-> NoArgs]
  /\ cached = [c \in Callers |-> Undefined]
  /\ newExpires = [c \in Callers |-> Undefined]
  /\ pool = [c \in Callers |-> Undefined]
  /\ result = [c \in Callers |-> NoResult]
  /\ obs = [c \in Callers |-> NoObs]
  /\ registryCall = NoRegistryCall
  /\ toolCall = NoToolCall
  /\ startup = Started

\* The variables a run of a tool leaves alone.
nonToolVars ==
  <<environments, auditEnabled, isReadOnly, intentRouter, registryCall, startup, routing, connections,
    keys, closeAll, connected, nextPool, globalPool, now, pc, args, cached, newExpires, pool,
    result, obs>>

\* The parameters the wrapper hands the run for environment `name`.
WrapperParams(name) ==
  [environment |-> name, environmentPolicy |-> BuildPolicy(environments[name])]

ReadData(name, query, database, maxRows, recordset) ==
  LET params == [query |-> query, database |-> database, maxRows |-> maxRows] @@ WrapperParams(name)
  IN /\ toolCall = NoToolCall
     /\ toolCall' = Ran("read_data", params, [recordset |-> recordset],
                        ReadDataToolRun(params, recordset))
     /\ UNCHANGED nonToolVars

UpdateData(name, whereClause, confirmUpdate, maxRows, counted, previewed, modified) ==
  LET params == [tableName |-> "t", updates |-> <<"status", "seen">>, whereClause |-> whereClause,
                 confirmUpdate |-> confirmUpdate, maxRows |-> maxRows] @@ WrapperParams(name)
  IN /\ toolCall = NoToolCall
     /\ toolCall' = Ran("update_data", params,
                        [counted |-> counted, previewed |-> previewed, modified |-> modified],
                        UpdateDataToolRun(params, counted, previewed, modified))
     /\ UNCHANGED nonToolVars

DeleteData(name, whereClause, confirmDelete, maxRows, counted, previewed, modified) ==
  LET params == [tableName |-> "t", whereClause |-> whereClause,
                 confirmDelete |-> confirmDelete, maxRows |-> maxRows] @@ WrapperParams(name)
  IN /\ toolCall = NoToolCall
     /\ toolCall' = Ran("delete_data", params,
                        [counted |-> counted, previewed |-> previewed, modified |-> modified],
                        DeleteDataToolRun(params, counted, previewed, modified))
     /\ UNCHANGED nonToolVars

\* A policy object as a value of an arguments object.
JsPolicy(policy) == [type |-> "object", policy |-> policy]

\* A faulty spread, to tell property C37 apart from it: the caller's fields
\* come last and win, { environment, environmentPolicy, ...rawArgs }.
toolArgsCallerLast(rawArgs, policy) ==
  [k \in DOMAIN rawArgs \cup {"environment", "environmentPolicy"} |->
     IF k \in DOMAIN rawArgs THEN rawArgs[k]
     ELSE IF k = "environment" THEN JsString(policy.name) ELSE JsPolicy(policy)]

\* const toolArgs = { ...rawArgs, environment: policy.name, environmentPolicy: policy }
toolArgs(rawArgs, policy) ==
  With(With(rawArgs, "environment", JsString(policy.name)), "environmentPolicy", JsPolicy(policy))

\* What one wrapped call comes to: an exception, a rejection, or the
\* arguments delivered to the tool's own run.
Undelivered(outcome, error) == [outcome |-> outcome, error |-> error, delivered |-> Undefined]
Delivered(arguments) == [outcome |-> "delivered", error |-> "", delivered |-> Some(arguments)]

\* The wrapper from its first line to the call of the tool's own run (lines
\* 754-829), with one caller; `connects` is whether getConnection resolves.
WrappedRunOf(toolName, rawArgs, connects) ==
  LET requestedEnvironment == EnvironmentArg(rawArgs)
      envConfig == getEnvironment(requestedEnvironment)
      policy == BuildPolicy(CHOOSE env \in envConfig : TRUE)
      read == [tool |-> toolName, environment |-> requestedEnvironment,
               confirm |-> ConfirmArg(rawArgs), tableName |-> TableNameArg(rawArgs)]
  IN IF envConfig = Undefined THEN Undelivered("thrown", "ENVIRONMENT_NOT_FOUND")
     ELSE IF PolicyCheck(toolName, policy, read) # "PASS"
     THEN Undelivered("rejected", PolicyCheck(toolName, policy, read))
     ELSE IF ~connects THEN Undelivered("thrown", "CONNECTION_FAILED")
     ELSE Delivered(toolArgs(rawArgs, policy))

\* The arguments objects of the wrapped calls: an environment that is absent,
\* registered, not registered or not a string, with or without a policy and
\* policy-shaped fields of the caller's own.
CallerPolicy ==
  JsPolicy([name |-> "ops", readonly |-> FALSE, allowedTools |-> Undefined,
            deniedTools |-> Undefined, maxRowsDefault |-> Some(100000),
            requireApproval |-> FALSE, auditLevel |-> "none"])
Optional(key, values) == {EmptyObject} \cup {key :> v : v \in values}
RawArguments ==
  {("query" :> JsString("SELECT 1")) @@ environment @@ environmentPolicy @@ readonly @@ confirm :
     environment \in Optional("environment", {JsString("ops"), JsString("ghost"), JsString(""), JsNumber(5)}),
     environmentPolicy \in Optional("environmentPolicy", {CallerPolicy, JsString("none")}),
     readonly \in Optional("readonly", {JsBoolean(FALSE)}),
     confirm \in Optional("confirm", {JsBoolean(TRUE)})}

WrappedRun(toolName, rawArgs, connects) ==
  /\ toolCall = NoToolCall
  /\ startup = Started
  /\ toolCall' = Ran("wrapToolRun", [toolName |-> toolName, rawArgs |-> rawArgs],
                     [connects |-> connects], WrappedRunOf(toolName, rawArgs, connects))
  /\ UNCHANGED nonToolVars

\* The caller takes the result; a tool may be run again.
TakeResult ==
  /\ toolCall # NoToolCall
  /\ toolCall' = NoToolCall
  /\ UNCHANGED nonToolVars

NextTools ==
  \/ TakeResult
  \/ \E name \in DOMAIN environments, query \in Queries, database \in {Undefined, Some("Sales"), Some("HR")}, maxRows \in MaxRowsValues, recordset \in RowCounts :
       ReadData(name, query, database, maxRows, recordset)
  \/ \E name \in DOMAIN environments, whereClause \in WhereClauses, confirmUpdate \in Confirmations, maxRows \in MaxRowsValues, counted \in RowCounts, previewed \in {Undefined, Some(1)}, modified \in RowCounts :
       UpdateData(name, whereClause, confirmUpdate, maxRows, counted, previewed, modified)
  \/ \E name \in DOMAIN environments, whereClause \in WhereClauses, confirmDelete \in Confirmations, maxRows \in MaxRowsValues, counted \in RowCounts, previewed \in {Undefined, Some(1)}, modified \in RowCounts :
       DeleteData(name, whereClause, confirmDelete, maxRows, counted, previewed, modified)
  \/ \E toolName \in {"read_data", "update_data", "drop_table"}, rawArgs \in RawArguments, connects \in BOOLEAN :
       WrappedRun(toolName, rawArgs, connects)

SpecTools == InitTools /\ [][NextTools]_vars

\* ----------------------------------------------------------------- start-up
\* The variables the top-level code of index.ts leaves alone.
nonStartupVars ==
  <<environments, auditEnabled, isReadOnly, intentRouter, registryCall, toolCall, routing,
    connections, keys, closeAll, connected, nextPool, globalPool, now, pc, args, cached,
    newExpires, pool, result, obs>>

\* The process at line 721 of index.ts, in either mode.
InitStartup ==
  /\ environments = LoadEnvironments(ReadmeProd)
  /\ auditEnabled \in BOOLEAN
  /\ connections = [n \in DOMAIN environments |-> Undefined]
  /\ keys = <<>>
  /\ closeAll = NotClosing
  /\ isReadOnly \in BOOLEAN
  /\ intentRouter = IntentRouter(toolRegistry, ~isReadOnly, TRUE)
  /\ routing = [c \in Callers |-> NoRoute]
  /\ connected = {}
  /\ nextPool = 0
  /\ globalPool = Undefined
  /\ now = 0
  /\ pc = [c \in Callers |-> "idle"]
  /\ args = [c \in Callers |-> NoArgs]
  /\ cached = [c \in Callers |-> Undefined]
  /\ newExpires = [c \in Callers |-> Undefined]
  /\ pool = [c \in Callers |-> Undefined]
  /\ result = [c \in Callers |-> NoResult]
  /\ obs = [c \in Callers |-> NoObs]
  /\ registryCall = NoRegistryCall
  /\ toolCall = NoToolCall
  /\ startup = NotStarted

\* runServer() is called (line 734) and runs to its await: the transport is
\* started; the top-level code goes on.
RunServer ==
  /\ startup.at = "handlers"
  /\ startup' = [startup EXCEPT !.at = "patching", !.listening = TRUE]
  /\ UNCHANGED nonStartupVars

\* forEach(wrapToolRun) patches the next tool of its array (line 867): the
\* tool's run is replaced by a wrapper of the run it had.  After the last
\* tool the top-level code has run to its end.
WrapToolRun ==
  /\ startup.at = "patching"
  /\ startup.patched < Len(PatchedTools)
  /\ startup' = [startup EXCEPT
       !.patched = @ + 1,
       !.wrapped[PatchedTools[startup.patched + 1]] = @ + 1,
       !.at = IF startup.patched + 1 = Len(PatchedTools) THEN "serving" ELSE "patching"]
  /\ UNCHANGED nonStartupVars

\* A request is handled: a message of the transport is read in a turn of the
\* event loop, so after the top-level code, which runs to completion.  The
\* tools/call handler calls the run of the tool a case of its switch names,
\* none for another name; the router calls the run of a tool of its
\* registry.  `wraps` is the number of wrappers on the run that is reached.
HandleRequest(via, name) ==
  /\ startup.at = "serving"
  /\ startup.listening
  /\ \/ via = "tools/call"
     \/ via = "route" /\ name \in {intentRouter.tools[i].name : i \in DOMAIN intentRouter.tools}
  /\ startup' = [startup EXCEPT !.handled =
       IF via = "tools/call" /\ name \notin Range(DispatchedTools)
       THEN [via |-> via, name |-> name, reached |-> FALSE, wraps |-> 0]
       ELSE [via |-> via, name |-> name, reached |-> TRUE, wraps |-> startup.wrapped[name]]]
  /\ UNCHANGED nonStartupVars

NextStartup ==
  \/ RunServer
  \/ WrapToolRun
  \/ \E via \in {"tools/call", "route"}, name \in ToolObjects \cup {"unknown_tool"} :
       HandleRequest(via, name)

SpecStartup == InitStartup /\ [][NextStartup]_vars

\* -------------------------------------------------------------- properties
\* The properties speak of a call through its arguments, the configuration of
\* the environment the arguments name, and what the call did; the four
\* conditions below restate the documented checks on the configuration file's
\* fields, apart from the wrapper's own code.
Registered(c) ==
  pc[c] # "idle" /\ getEnvironment(args[c].environment) # Undefined

ConfigOf(c) == environments[EnvOf(c)]

Listed(toolName, optionalList) ==
  \E list \in optionalList : \E i \in 1 .. Len(list) : list[i] = toolName

NonEmpty(optionalList) == \E list \in optionalList : list # <<>>

DenyFails(c) == Listed(args[c].tool, ConfigOf(c).deniedTools)

AllowFails(c) ==
  NonEmpty(ConfigOf(c).allowedTools) /\ ~Listed(args[c].tool, ConfigOf(c).allowedTools)

ReadonlyFails(c) ==
  ConfigOf(c).readonly = Some(TRUE) /\ args[c].tool \in MUTATING_TOOL_NAMES

ApprovalFails(c) ==
  /\ ConfigOf(c).requireApproval = Some(TRUE)
  /\ args[c].tool \notin APPROVAL_EXEMPT_TOOLS
  /\ args[c].confirm # "bool:true"

ConnectionErrors == {"CONFIG_ERROR", "AUTHENTICATION_FAILED", "CONNECTION_FAILED"}

\* C1: a call rejected by the deny, allow, readonly or approval check never
\* calls getConnection and never invokes the underlying run: the step that
\* rejects it leaves the connection cache, the open pools and the global pool
\* as they were, and the call has made no token, close, connect, run or audit
\* call.
C1_RejectionStep ==
  \A c \in Callers :
    (pc[c] = "idle" /\ pc'[c] = "done" /\ result'[c].status = "rejected")
      => /\ result'[c].error \in PolicyErrors
         /\ connections' = connections
         /\ connected' = connected
         /\ nextPool' = nextPool
         /\ globalPool' = globalPool
         /\ obs'[c] = NoObs

C1_RejectionIsPure ==
  /\ [](\A c \in Callers :
          (pc[c] = "done" /\ result[c].error \in PolicyErrors) => obs[c] = NoObs)
  /\ [][C1_RejectionStep]_vars

\* C1 witness: a call was rejected while production had a cached, open pool.
C1_Witness ==
  \E c \in Callers :
    /\ pc[c] = "done"
    /\ result[c].status = "rejected"
    /\ result[c].error = "APPROVAL_REQUIRED"
    /\ \E e \in connections["prod"] : e.pool \in connected

\* C2: the checks are evaluated in the order deniedTools, allowedTools,
\* readonly, requireApproval and the first failing one decides the result; a
\* call no check fails is not rejected, and a call some check fails never
\* gets past the wrapper's checks.
C2_PolicyPrecedence ==
  \A c \in Callers :
    Registered(c) =>
      LET failing == DenyFails(c) \/ AllowFails(c) \/ ReadonlyFails(c) \/ ApprovalFails(c)
          expected == IF DenyFails(c) THEN "TOOL_DENIED"
                      ELSE IF AllowFails(c) THEN "TOOL_NOT_ALLOWED"
                      ELSE IF ReadonlyFails(c) THEN "ENVIRONMENT_READONLY"
                      ELSE "APPROVAL_REQUIRED"
      IN /\ failing => /\ pc[c] = "done"
                       /\ result[c].status = "rejected"
                       /\ result[c].error = expected
         /\ ~failing => result[c].status # "rejected"

\* C2 witness: a tool listed in both deniedTools and allowedTools, called in a
\* readonly environment that requires approval, was rejected as denied.
C2_Witness ==
  \E c \in Callers :
    /\ Registered(c)
    /\ pc[c] = "done"
    /\ DenyFails(c)
    /\ Listed(args[c].tool, ConfigOf(c).allowedTools)
    /\ ReadonlyFails(c)
    /\ ApprovalFails(c)
    /\ result[c].error = "TOOL_DENIED"

\* C3: concurrent getConnection calls for one environment, issued while no
\* handle is cached for it, make one connect attempt between them (one
\* sql.connect, one token acquisition) and receive the same handle.
C3_SingleFlightWhenAbsent ==
  \A c, d \in Callers :
    (c # d /\ d \in obs[c].peers /\ c \in obs[d].peers
       /\ obs[c].found = "absent" /\ obs[d].found = "absent")
      => /\ obs[c].connectCalls + obs[d].connectCalls <= 1
         /\ obs[c].tokenCalls + obs[d].tokenCalls <= 1
         /\ (pc[c] = "gotConn" /\ pc[d] = "gotConn") => pool[c] = pool[d]

\* C4: overlapping getConnection calls for one environment that find its
\* cached handle expired or disconnected replace it once between them: one
\* new connection, one close of the old handle.
C4_SingleReplacement ==
  \A c, d \in Callers :
    (c # d /\ d \in obs[c].peers /\ c \in obs[d].peers
       /\ obs[c].found = "stale" /\ obs[d].found = "stale")
      => /\ obs[c].connectCalls + obs[d].connectCalls <= 1
         /\ obs[c].closeCalls + obs[d].closeCalls <= 1

\* The handle of a cache entry is valid: connected, with no expiry or an
\* expiry more than 2 minutes after now.
ValidHandle(entry) ==
  \E e \in entry :
    /\ e.pool \in connected
    /\ e.expiresOn = Undefined \/ (\E x \in e.expiresOn : x > now + 2)

\* A call is inside getConnection, or has left it without reaching the run,
\* after it found no valid handle.
Missed(c) ==
  /\ pc[c] \in {"config", "closing", "connecting", "gotConn", "done"}
  /\ obs[c].found \in {"absent", "stale"}

\* C5, steps: a call entering getConnection returns the cached handle, without
\* connecting, exactly when the handle is valid; after building the connection
\* parameters it closes the prior handle exactly when that is still connected.
C5_Step ==
  \A c \in Callers :
    /\ (pc[c] = "idle" /\ pc'[c] \in {"gotConn", "config"}) =>
         LET entry == connections[EnvOf(c)']
         IN /\ (pc'[c] = "gotConn") <=> ValidHandle(entry)
            /\ pc'[c] = "gotConn" =>
                 /\ pool'[c] = {e.pool : e \in entry}
                 /\ obs'[c].connectCalls = 0 /\ obs'[c].tokenCalls = 0
                 /\ connections' = connections /\ nextPool' = nextPool
    /\ (pc[c] = "config" /\ pc'[c] \in {"closing", "connecting"}) =>
         LET prior == {e.pool : e \in connections[EnvOf(c)]}
         IN /\ (pc'[c] = "closing") <=> (prior \cap connected # {})
            /\ connected' = connected \ prior

\* C5, as the code has it: for non-overlapping calls, a call that finds no
\* valid handle makes at most one connect; it fails without connecting when
\* the connection parameters cannot be built, and otherwise has made its one
\* connect once the prior handle is closed; when the connect succeeds the new
\* handle is cached in place of the prior one and returned, and when it fails
\* the call fails and caches nothing.
C5_State ==
  \A c \in Callers :
    Missed(c) =>
      /\ obs[c].connectCalls <= 1 /\ obs[c].closeCalls <= 1
      /\ pc[c] \in {"config", "closing"} => obs[c].connectCalls = 0
      /\ pc[c] = "connecting" => obs[c].connectCalls = 1
      /\ pc[c] = "gotConn" =>
           /\ obs[c].connectCalls = 1
           /\ cached[c] \cap connected = {}
           /\ pool[c] \cap cached[c] = {}
           /\ \E e \in connections[EnvOf(c)] : pool[c] = {e.pool}
      /\ pc[c] = "done" =>
           /\ result[c].status = "thrown"
           /\ result[c].error \in ConnectionErrors
           /\ obs[c].connectCalls = IF result[c].error = "CONNECTION_FAILED" THEN 1 ELSE 0
           /\ {e.pool : e \in connections[EnvOf(c)]} = cached[c]

C5_CacheOrReconnect == []C5_State /\ [][C5_Step]_vars

\* C5 witness: a call found the cached handle expired but connected, closed it,
\* connected once and got the new handle.
C5_Witness ==
  \E c \in Callers :
    /\ pc[c] = "gotConn"
    /\ obs[c].found = "stale"
    /\ obs[c].closeCalls = 1
    /\ obs[c].connectCalls = 1
    /\ obs[c].closed = cached[c]
    /\ pool[c] # cached[c]

\* C5 as the specification words it: every call that finds no valid handle
\* performs exactly one connect and caches the new handle.
C5_AlwaysReconnects ==
  \A c \in Callers :
    (Missed(c) /\ pc[c] \in {"gotConn", "done"}) =>
      /\ obs[c].connectCalls = 1
      /\ \E e \in connections[EnvOf(c)] : e.pool \notin cached[c]

\* C6, as the code has it: the run of a mutating tool is never invoked for an
\* environment whose readonly flag is true; the call is rejected, with
\* ENVIRONMENT_READONLY unless the deny or the allow check rejected it first
\* (TOOL_DENIED, TOOL_NOT_ALLOWED).
C6_ReadonlyBlocksMutation ==
  \A c \in Callers :
    (Registered(c) /\ ReadonlyFails(c)) =>
      /\ obs[c].runCalls = 0
      /\ pc[c] = "done"
      /\ result[c].status = "rejected"
      /\ result[c].error \in {"TOOL_DENIED", "TOOL_NOT_ALLOWED", "ENVIRONMENT_READONLY"}
      /\ (result[c].error = "ENVIRONMENT_READONLY") <=> (~DenyFails(c) /\ ~AllowFails(c))

\* C6 witness: a mutating call on a readonly production that had an open pool
\* was rejected as readonly.
C6_Witness ==
  \E c \in Callers :
    /\ Registered(c)
    /\ ReadonlyFails(c)
    /\ pc[c] = "done"
    /\ result[c].error = "ENVIRONMENT_READONLY"
    /\ connections["prod"] # Undefined

\* C6 as the specification words it: every mutating call on a readonly
\* environment returns ENVIRONMENT_READONLY.
C6_AlwaysReadonlyError ==
  \A c \in Callers :
    (Registered(c) /\ ReadonlyFails(c)) =>
      /\ obs[c].runCalls = 0
      /\ pc[c] = "done" => result[c].error = "ENVIRONMENT_READONLY"

\* C7, as the code has it: where requireApproval is true, a call of a
\* non-exempt tool without confirm === true is rejected and does not execute,
\* with APPROVAL_REQUIRED and its arguments echoed unless an earlier check
\* rejected it; a call with confirm === true, and a call of an exempt tool,
\* is never rejected for approval, and when no other check rejects it the
\* wrapper goes on to acquire the connection.
C7_ApprovalGate ==
  \A c \in Callers :
    (Registered(c) /\ ConfigOf(c).requireApproval = Some(TRUE)) =>
      LET earlier == DenyFails(c) \/ AllowFails(c) \/ ReadonlyFails(c)
      IN /\ ApprovalFails(c) =>
              /\ pc[c] = "done"
              /\ result[c].status = "rejected"
              /\ obs[c].runCalls = 0
              /\ ~earlier => /\ result[c].error = "APPROVAL_REQUIRED"
                             /\ result[c].providedArguments = Some(args[c])
         /\ ~ApprovalFails(c) => result[c].error # "APPROVAL_REQUIRED"
         /\ (~ApprovalFails(c) /\ ~earlier) => result[c].status # "rejected"
         /\ obs[c].runCalls = 1 => (~ApprovalFails(c) /\ ~earlier)

\* C7 witness: a call that sent confirm as the string "true" was rejected for
\* approval, its arguments echoed.
C7_Witness ==
  \E c \in Callers :
    /\ Registered(c)
    /\ ConfigOf(c).requireApproval = Some(TRUE)
    /\ args[c].confirm = "str:true"
    /\ pc[c] = "done"
    /\ result[c].error = "APPROVAL_REQUIRED"
    /\ result[c].providedArguments = Some(args[c])

\* C7 as the specification words it: every unconfirmed call of a non-exempt
\* tool where requireApproval is true returns APPROVAL_REQUIRED with its
\* arguments, and every confirmed one reaches execution.
C7_AlwaysApprovalError ==
  \A c \in Callers :
    (Registered(c) /\ ConfigOf(c).requireApproval = Some(TRUE)) =>
      /\ (ApprovalFails(c) /\ pc[c] = "done") =>
           /\ result[c].error = "APPROVAL_REQUIRED"
           /\ result[c].providedArguments = Some(args[c])
      /\ (args[c].confirm = "bool:true" /\ pc[c] = "done") =>
           obs[c].runCalls = 1

\* C8, as the code has it: where allowedTools is non-empty, a call of a tool
\* that is not in it is rejected and does not execute, with TOOL_NOT_ALLOWED
\* unless the tool is also in deniedTools (then TOOL_DENIED); where
\* allowedTools is absent or empty no call is rejected as not allowed.
C8_AllowList ==
  \A c \in Callers :
    Registered(c) =>
      /\ AllowFails(c) =>
           /\ pc[c] = "done"
           /\ result[c].status = "rejected"
           /\ obs[c].runCalls = 0
           /\ result[c].error = IF DenyFails(c) THEN "TOOL_DENIED" ELSE "TOOL_NOT_ALLOWED"
      /\ ~NonEmpty(ConfigOf(c).allowedTools) => result[c].error # "TOOL_NOT_ALLOWED"

\* C8 witness: update_data, called where allowedTools lists another tool and
\* deniedTools does not list it, was rejected as not allowed.
C8_Witness ==
  \E c \in Callers :
    /\ Registered(c)
    /\ AllowFails(c)
    /\ ~DenyFails(c)
    /\ args[c].tool = "update_data"
    /\ pc[c] = "done"
    /\ result[c].error = "TOOL_NOT_ALLOWED"

\* C8 as the specification words it: every call of a tool outside a non-empty
\* allowedTools returns TOOL_NOT_ALLOWED.
C8_AlwaysNotAllowedError ==
  \A c \in Callers :
    (Registered(c) /\ AllowFails(c) /\ pc[c] = "done") =>
      result[c].error = "TOOL_NOT_ALLOWED"

\* C9: every call that passes the policy checks has made exactly one call to
\* the audit logger by the time it returns or throws.
C9_OneAuditRecord ==
  \A c \in Callers :
    (Registered(c) /\ pc[c] = "done"
       /\ ~(DenyFails(c) \/ AllowFails(c) \/ ReadonlyFails(c) \/ ApprovalFails(c)))
      => obs[c].auditCalls = 1

\* C10: a call whose connection acquisition failed gives its caller a
\* structured failure, not an exception, and has been audited.
C10_ConnectionFailureHandled ==
  \A c \in Callers :
    (pc[c] = "done" /\ obs[c].runCalls = 0 /\ result[c].error \in ConnectionErrors)
      => /\ result[c].status # "thrown"
         /\ obs[c].auditCalls >= 1

\* C12: a getConnection that fails (parameter building, token acquisition,
\* connect error or timeout) leaves no handle cached for its environment, the
\* error reaches the caller, and the call made at most one connect attempt.
C12_FailureLeavesAbsent ==
  \A c \in Callers :
    (pc[c] = "done" /\ obs[c].runCalls = 0 /\ result[c].error \in ConnectionErrors)
      => /\ connections[EnvOf(c)] = Undefined
         /\ result[c].status = "thrown"
         /\ obs[c].connectCalls <= 1

\* C13: closeAll closes every cached handle and Closed is terminal: once
\* closeAll has run, no getConnection opens a connection or caches a handle.
C13_ClosedIsTerminal ==
  closeAll.completed =>
    /\ \A n \in DOMAIN connections : connections[n] = Undefined
    /\ \A c \in Callers : obs[c].connectCalls = 0

\* C15: when the server runs with READONLY=true, no tools/call request
\* executes a mutating tool, whatever the tool name it carries and whatever
\* the readonly flag of the environment it targets.
C15_ReadonlyServerNeverMutates ==
  \A c \in Callers :
    (isReadOnly /\ args[c].tool \in MUTATING_TOOL_NAMES) => obs[c].runCalls = 0

\* The properties of the router speak of a call of route through the params it
\* was given, the winner it chose and the result it returned.
Routed(c) == routing[c].stage # "none"
Answered(c) == routing[c].stage = "done"
ParamsOf(c) == CHOOSE params \in routing[c].params : TRUE
PlanOf(c) == CHOOSE plan \in routing[c].plan : TRUE
RouteResultOf(c) == CHOOSE r \in routing[c].result : TRUE
HasWinner(c) == Routed(c) /\ PlanOf(c).bestCandidate # Undefined
WinnerOf(c) == (CHOOSE best \in PlanOf(c).bestCandidate : TRUE).config
NothingInvoked(c) == pc[c] = "idle" /\ args[c] = NoArgs /\ obs[c].runCalls = 0

\* The operations of the registry flagged mutatesData or schemaChange.
FlaggedNames ==
  {toolRegistry[i].name : i \in {j \in DOMAIN toolRegistry :
      toolRegistry[j].mutatesData = Some(TRUE) \/ toolRegistry[j].schemaChange = Some(TRUE)}}

\* C16: a router constructed in mutation-disabled mode never selects an
\* operation flagged mutatesData or schemaChange: whatever the prompt, the
\* arguments and the preferred tool, no such operation is the winner, is
\* executed or is reported as routedTool.
C16_NoMutationWhenDisabled ==
  \A c \in Callers :
    (Routed(c) /\ (isReadOnly \/ ~intentRouter.allowMutations)) =>
      /\ args[c].tool \notin FlaggedNames
      /\ HasWinner(c) => WinnerOf(c).name \notin FlaggedNames
      /\ Answered(c) => RouteResultOf(c).routedTool \cap FlaggedNames = {}

\* A read-only server was asked to update with every argument an update needs
\* and with confirmIntent, and it ran another operation.
C16_Witness ==
  \E c \in Callers :
    /\ isReadOnly /\ Answered(c)
    /\ ParamsOf(c).prompt = JsString("update the customer email")
    /\ ParamsOf(c).toolArguments = Some(UpdateCustomers)
    /\ RouteResultOf(c).success /\ obs[c].runCalls = 1

\* The winner needs confirmation and the caller did not set confirmIntent.
IsFlagged(config) ==
  \/ config.mutatesData = Some(TRUE)
  \/ config.schemaChange = Some(TRUE)
  \/ config.requiresConfirmation = Some(TRUE)

ConfirmIntentSet(c) ==
  ParamsOf(c).confirmIntent
    \notin {JsUndefined, JsNull, JsBoolean(FALSE), JsString(""), JsNumber(0)}

NeedsConfirmation(c) ==
  /\ IsFlagged(WinnerOf(c))
  /\ intentRouter.requireConfirmationForMutations
  /\ ~ConfirmIntentSet(c)

\* A value that does not count as an argument: absent, null, an empty or
\* blank string, an empty array, an empty object.
IsBlank(value) ==
  \/ value.type \in {"undefined", "null"}
  \/ value.type = "string" /\ \A i \in 1 .. Len(value.value) : IsWhitespace(CharAt(value.value, i))
  \/ value.type = "array" /\ value.length = 0
  \/ value.type = "object" /\ value.keys = 0

\* The required arguments of the winner that the merged arguments lack.
MissingOf(c) ==
  SelectSeq(WinnerOf(c).requiredArgs, LAMBDA arg : IsBlank(Get(PlanOf(c).toolArguments, arg)))

\* C17: if the winner is mutating, schema-changing or confirmation-flagged,
\* the router requires confirmation, confirmIntent is not set and no required
\* argument of the winner is missing, route returns CONFIRMATION_REQUIRED and
\* the winner's run is not invoked; with a required argument missing it
\* returns MISSING_ARGUMENTS instead, again without invoking the run; and
\* CONFIRMATION_REQUIRED is returned in no other case, so never by a router
\* that does not require confirmation.
C17_ConfirmationGate ==
  \A c \in Callers :
    Routed(c) =>
      /\ (HasWinner(c) /\ NeedsConfirmation(c) /\ MissingOf(c) = <<>>) =>
           /\ Answered(c) /\ NothingInvoked(c)
           /\ RouteResultOf(c).error = "CONFIRMATION_REQUIRED"
           /\ ~RouteResultOf(c).success
      /\ (HasWinner(c) /\ NeedsConfirmation(c) /\ MissingOf(c) # <<>>) =>
           /\ Answered(c) /\ NothingInvoked(c)
           /\ RouteResultOf(c).error = "MISSING_ARGUMENTS"
      /\ (Answered(c) /\ RouteResultOf(c).error = "CONFIRMATION_REQUIRED") =>
           HasWinner(c) /\ NeedsConfirmation(c) /\ MissingOf(c) = <<>>

\* An update with all its arguments and no confirmIntent was stopped by the
\* confirmation gate.
C17_Witness ==
  \E c \in Callers :
    /\ Answered(c) /\ HasWinner(c) /\ WinnerOf(c).name = "update_data"
    /\ NeedsConfirmation(c) /\ MissingOf(c) = <<>>
    /\ RouteResultOf(c).error = "CONFIRMATION_REQUIRED"

\* C17 as the specification words it: whenever the winner needs confirmation
\* and confirmIntent is not set, route returns CONFIRMATION_REQUIRED.
C17_AlwaysConfirmationRequired ==
  \A c \in Callers :
    (HasWinner(c) /\ NeedsConfirmation(c)) =>
      Answered(c) /\ RouteResultOf(c).error = "CONFIRMATION_REQUIRED"

\* C18: if a required argument of the winner is absent, null, an empty or
\* blank string, an empty array or an empty object, route returns
\* MISSING_ARGUMENTS, naming the winner and the missing arguments, and the
\* winner's run is not invoked, whether or not the winner needs confirmation;
\* MISSING_ARGUMENTS is returned in no other case.
C18_MissingArgumentsGate ==
  \A c \in Callers :
    Routed(c) =>
      /\ (HasWinner(c) /\ MissingOf(c) # <<>>) =>
           /\ Answered(c) /\ NothingInvoked(c)
           /\ ~RouteResultOf(c).success
           /\ RouteResultOf(c).error = "MISSING_ARGUMENTS"
           /\ RouteResultOf(c).routedTool = Some(WinnerOf(c).name)
           /\ Includes(RouteResultOf(c).message, "'" \o WinnerOf(c).name \o "'")
           /\ Includes(RouteResultOf(c).message, ": " \o Join(MissingOf(c)) \o ".")
      /\ (Answered(c) /\ RouteResultOf(c).error = "MISSING_ARGUMENTS") =>
           HasWinner(c) /\ MissingOf(c) # <<>>

\* An update that needs confirmation, whose tableName is null and whose
\* whereClause is blank, was stopped by the missing-argument gate.
C18_Witness ==
  \E c \in Callers :
    /\ Answered(c) /\ HasWinner(c) /\ WinnerOf(c).name = "update_data"
    /\ NeedsConfirmation(c)
    /\ MissingOf(c) = <<"tableName", "whereClause">>
    /\ RouteResultOf(c).error = "MISSING_ARGUMENTS"

\* The arguments the router hands the winner's run: the caller's arguments
\* with the selected environment.
GivenArguments(c) ==
  IF ParamsOf(c).toolArguments = Undefined THEN EmptyObject
  ELSE CHOOSE given \in ParamsOf(c).toolArguments : TRUE

\* C19: the router executes the winner through the policy-wrapped run, with
\* the merged arguments, so the deny, allow, readonly and approval checks
\* stop a routed call before the underlying run; an exception of that
\* execution is returned as success false, ROUTED_TOOL_FAILED, carrying the
\* winner's name, and route never throws.
C19_RoutedExecution ==
  \A c \in Callers :
    Routed(c) =>
      /\ routing[c].status # "thrown"
      /\ args[c] # NoArgs =>
           /\ HasWinner(c) /\ args[c].tool = WinnerOf(c).name
           /\ ParamsOf(c).environment \notin {Undefined, Some("")} =>
                args[c].environment = ParamsOf(c).environment
           /\ Get(GivenArguments(c), "tableName").type = "string" =>
                args[c].tableName = Some(Get(GivenArguments(c), "tableName").value)
           /\ (args[c].confirm = "bool:true") = (Get(GivenArguments(c), "confirm") = JsBoolean(TRUE))
      /\ (Registered(c) /\ pc[c] = "done"
            /\ (DenyFails(c) \/ AllowFails(c) \/ ReadonlyFails(c) \/ ApprovalFails(c))) =>
           obs[c].runCalls = 0 /\ result[c].status = "rejected"
      /\ (Answered(c) /\ result[c].status = "thrown") =>
           /\ ~RouteResultOf(c).success
           /\ RouteResultOf(c).error = "ROUTED_TOOL_FAILED"
           /\ RouteResultOf(c).routedTool = Some(WinnerOf(c).name)
           /\ Includes(RouteResultOf(c).message, "'" \o WinnerOf(c).name \o "'")
      /\ (Answered(c) /\ RouteResultOf(c).error = "ROUTED_TOOL_FAILED") =>
           result[c].status = "thrown"

\* A routed list_tables failed to get its connection, and route returned
\* ROUTED_TOOL_FAILED.
C19_Witness ==
  \E c \in Callers :
    /\ Answered(c) /\ args[c].tool = "list_tables"
    /\ result[c].status = "thrown" /\ result[c].error \in ConnectionErrors
    /\ RouteResultOf(c).error = "ROUTED_TOOL_FAILED"

\* C20: when the prompt is not blank and the candidate list is empty or the
\* winning score is at most 0, route returns NO_TOOL_MATCH and no operation is
\* executed; NO_TOOL_MATCH is returned in no other case.
C20_NoToolMatch ==
  \A c \in Callers :
    Routed(c) =>
      LET noMatch == /\ PlanOf(c).gate # "MISSING_PROMPT"
                     /\ \A halves \in PlanOf(c).winningScore : halves <= 0
      IN /\ noMatch =>
              /\ Answered(c) /\ NothingInvoked(c)
              /\ ~RouteResultOf(c).success
              /\ RouteResultOf(c).error = "NO_TOOL_MATCH"
              /\ RouteResultOf(c).routedTool = Undefined
         /\ (Answered(c) /\ RouteResultOf(c).error = "NO_TOOL_MATCH") => noMatch

\* The best score was exactly 0, and route refused.
C20_Witness ==
  \E c \in Callers :
    /\ Answered(c) /\ PlanOf(c).winningScore = Some(0)
    /\ RouteResultOf(c).error = "NO_TOOL_MATCH"

\* C11: every policy rejection of the wrapper and every routing rejection of
\* the router is a returned result with success false, an error code and a
\* message; none is thrown.
C11_RejectionsAreResults ==
  \A c \in Callers :
    /\ (Registered(c) /\ pc[c] = "done"
          /\ (DenyFails(c) \/ AllowFails(c) \/ ReadonlyFails(c) \/ ApprovalFails(c))) =>
         /\ result[c].status = "rejected"
         /\ result[c].success = Some(FALSE)
         /\ result[c].error \in PolicyErrors
         /\ result[c].message # ""
    /\ result[c].error \in PolicyErrors => result[c].status = "rejected"
    /\ (Routed(c) /\ PlanOf(c).gate # "PASS") =>
         /\ Answered(c) /\ routing[c].status = "returned"
         /\ ~RouteResultOf(c).success
         /\ RouteResultOf(c).error = PlanOf(c).gate
         /\ RouteResultOf(c).error \in RoutingErrors
         /\ RouteResultOf(c).message # ""
    /\ (Routed(c) /\ ParamsOf(c).prompt \in {JsUndefined, JsString("   ")}) =>
         Answered(c) /\ RouteResultOf(c).error = "MISSING_PROMPT"

\* A routed call was rejected by the policy of production, and the rejection
\* came back as the result of the tool.
C11_Witness ==
  \E c \in Callers :
    /\ Answered(c) /\ pc[c] = "done" /\ result[c].error \in PolicyErrors
    /\ RouteResultOf(c).toolResult = Some(result[c])

\* The schema and the table of a schema.table reference.
DotOf(reference) ==
  CHOOSE i \in 1 .. Len(reference) :
    CharAt(reference, i) = "." /\ \A j \in 1 .. (i - 1) : CharAt(reference, j) # "."
SchemaOf(reference) == SubSeq(reference, 1, DotOf(reference) - 1)
TableOf(reference) == SubSeq(reference, DotOf(reference) + 1, Len(reference))

\* C14: no wrapped operation writes a table whose schema, or schema.table
\* reference, matches a deniedSchemas pattern of the resolved environment or
\* fails to match a non-empty allowedSchemas: the schema check precedes the
\* SQL.
C14_SchemaFiltersApplied ==
  \A c \in Callers :
    \A reference \in obs[c].queried :
      isSchemaAllowed(args[c].environment, SchemaOf(reference), TableOf(reference))

\* The score the scoring rule gives an operation, in halves: the base score,
\* 5 for the inferred intent, 3 for the preferred name, 2 for each keyword in
\* the lower-cased prompt, 1 for each required argument present and -1 for
\* each one missing.
ClaimedScore(config, prompt, toolArguments, intent, preferredToolName) ==
  LET present == {i \in DOMAIN config.requiredArgs :
                    ~IsBlank(Get(toolArguments, config.requiredArgs[i]))}
  IN OrElse(config.baseScore, 1)
       + (IF \E i \in DOMAIN config.intents : config.intents[i] = intent THEN 10 ELSE 0)
       + (IF preferredToolName = Some(config.name) THEN 6 ELSE 0)
       + 4 * Cardinality({i \in DOMAIN config.keywords : Includes(prompt, config.keywords[i])})
       + 2 * Cardinality(present)
       - 2 * (Len(config.requiredArgs) - Cardinality(present))

\* The operations a router in mutation-disabled mode leaves out.
LeftOut(config) ==
  /\ ~intentRouter.allowMutations
  /\ config.mutatesData = Some(TRUE) \/ config.schemaChange = Some(TRUE)

Highest(amounts) == CHOOSE m \in amounts : \A n \in amounts : n <= m

\* Among the operations of `tools` at `positions`, the first in registration
\* order whose claimed score is the highest, with that score.
FirstOfHighest(tools, positions, prompt, toolArguments, intent, preferredToolName) ==
  LET scored == {<<i, ClaimedScore(tools[i], prompt, toolArguments, intent, preferredToolName)>> :
                   i \in positions}
      highest == Highest({pair[2] : pair \in scored})
  IN [config |-> tools[First({pair[1] : pair \in {p \in scored : p[2] = highest}})],
      score |-> highest]

\* The same for the call of route in hand.
FirstBest(c, positions) ==
  FirstOfHighest(intentRouter.tools, positions, ToLowerCase(Trim(ParamsOf(c).prompt.value)),
                 PlanOf(c).toolArguments, PlanOf(c).intent, ParamsOf(c).preferredToolName)

\* The registered operations the router's mode does not leave out.
NotLeftOut == {i \in DOMAIN intentRouter.tools : ~LeftOut(intentRouter.tools[i])}

\* C21: the operation route selects is the first in registration order among
\* the operations with the highest score that the router's mode does not
\* leave out (a router in mutation-disabled mode leaves out the operations
\* flagged mutatesData or schemaChange), where the score is baseScore (0.5
\* when not declared) + 5 for the inferred intent + 3 for the preferred name
\* + 2 per keyword in the lower-cased prompt + 1 per required argument
\* present - 1 per required argument missing; the candidate's score is that
\* score.
C21_FirstOfHighestScore ==
  \A c \in Callers :
    HasWinner(c) =>
      /\ NotLeftOut # {}
      /\ LET best == FirstBest(c, NotLeftOut)
         IN WinnerOf(c) = best.config /\ PlanOf(c).winningScore = Some(best.score)

\* Three operations score the same on the prompt "schema" and the one
\* registered first was selected.
C21_Witness ==
  \E c \in Callers :
    /\ HasWinner(c) /\ ParamsOf(c).prompt = JsString("schema")
    /\ ParamsOf(c).preferredToolName = Undefined
    /\ WinnerOf(c).name = "list_tables"
    /\ \E i \in DOMAIN intentRouter.tools :
         /\ intentRouter.tools[i].name = "search_schema"
         /\ FirstBest(c, {i}).score = FirstBest(c, NotLeftOut).score

\* C21 as the specification words it: the selected operation is the first in
\* registration order among all registered operations with the highest score.
C21_FirstOfHighestScoreOfAll ==
  \A c \in Callers :
    HasWinner(c) => WinnerOf(c) = FirstBest(c, DOMAIN intentRouter.tools).config

\* The priority of the intents, highest first.
IntentPriority ==
  <<"schema_change", "data_write", "metadata", "schema_discovery", "data_read">>

\* The keywords of each intent.
IntentKeywords ==
  [intent \in Range(IntentPriority) |->
     CASE intent = "schema_change" ->
            {"create table", "drop table", "create index", "drop index", "alter", "ddl"}
       [] intent = "data_write" ->
            {"update", "insert", "delete", "fix", "modify", "change", "correct"}
       [] intent = "metadata" ->
            {"profile", "sample", "statistics", "distribution", "quality"}
       [] intent = "schema_discovery" ->
            {"describe", "columns", "list tables", "show tables", "schema", "search"}
       [] intent = "data_read" ->
            {"select", "query", "fetch", "count", "report", "view"}]

\* The intents one of whose keywords occurs in the prompt.
IntentsHit(prompt) ==
  {intent \in Range(IntentPriority) : \E keyword \in IntentKeywords[intent] : Includes(prompt, keyword)}

HighestPriority(intents) ==
  IntentPriority[First({i \in DOMAIN IntentPriority : IntentPriority[i] \in intents})]

\* The SQL text of the arguments: the query argument when it is a string,
\* else the sql argument when it is a string, trimmed and lower-cased.
SqlOf(toolArguments) ==
  IF Get(toolArguments, "query").type = "string"
  THEN ToLowerCase(Trim(Get(toolArguments, "query").value))
  ELSE IF Get(toolArguments, "sql").type = "string"
  THEN ToLowerCase(Trim(Get(toolArguments, "sql").value))
  ELSE ""

\* The intent of the verb a SQL text starts with, {} when it starts with none.
VerbIntent(sqlText) ==
  IF StartsWith(sqlText, "select") THEN {"data_read"}
  ELSE IF \E verb \in {"update", "delete", "insert"} : StartsWith(sqlText, verb) THEN {"data_write"}
  ELSE IF \E verb \in {"create", "drop"} : StartsWith(sqlText, verb) THEN {"schema_change"}
  ELSE {}

HasPattern(toolArguments) ==
  Truthy(Get(toolArguments, "tablePattern")) \/ Truthy(Get(toolArguments, "columnPattern"))

\* The intent by the detectors and the SQL verb, `otherwise` when neither
\* gives one.
ClassifiedIntent(prompt, toolArguments, otherwise) ==
  LET hit == IntentsHit(prompt)
      byVerb == VerbIntent(SqlOf(toolArguments))
  IN IF hit # {} THEN HighestPriority(hit)
     ELSE IF byVerb # {} THEN CHOOSE intent \in byVerb : TRUE
     ELSE otherwise

\* A call of route that got past its prompt check.
Classified(c) == Routed(c) /\ PlanOf(c).gate # "MISSING_PROMPT"

PromptOf(c) == ToLowerCase(Trim(ParamsOf(c).prompt.value))

\* C23: the inferred intent is that of the first detector, in the order
\* schema_change > data_write > metadata > schema_discovery > data_read, one
\* of whose keywords occurs in the lower-cased prompt, whatever keywords of
\* lower priority the prompt also contains; when no detector hits, it comes
\* from the verb the query argument (else the sql argument) starts with; when
\* that gives none, it is schema_discovery if the arguments carry a
\* tablePattern or a columnPattern, and data_read otherwise.
C23_IntentPriority ==
  \A c \in Callers :
    Classified(c) =>
      PlanOf(c).intent
        = ClassifiedIntent(PromptOf(c), PlanOf(c).toolArguments,
                           IF HasPattern(PlanOf(c).toolArguments)
                           THEN "schema_discovery" ELSE "data_read")

\* The prompt "profile the schema" has a keyword of metadata and one of
\* schema_discovery, and was classified metadata.
C23_Witness ==
  \E c \in Callers :
    /\ Classified(c)
    /\ {"metadata", "schema_discovery"} \subseteq IntentsHit(PromptOf(c))
    /\ PlanOf(c).intent = "metadata"

\* C23 as the specification words it: without a detector hit and without a
\* SQL verb the intent is data_read.
C23_DefaultsToDataRead ==
  \A c \in Callers :
    Classified(c) =>
      PlanOf(c).intent = ClassifiedIntent(PromptOf(c), PlanOf(c).toolArguments, "data_read")

\* The registered names in registration order.
RegisteredNames == SelectSeq(FileOrder, LAMBDA name : name \in DOMAIN environments)

\* `name` with each "-" replaced by a blank.
RECURSIVE Undashed(_)
Undashed(name) ==
  IF name = "" THEN ""
  ELSE (IF CharAt(name, 1) = "-" THEN " " ELSE CharAt(name, 1))
         \o Undashed(SubSeq(name, 2, Len(name)))

\* The lower-cased prompt has `word` at position i, with no letter, digit or
\* underscore right before it or right after it.
TokenAt(prompt, word, i) ==
  /\ SubSeq(prompt, i, i + Len(word) - 1) = word
  /\ ~IsWordAt(prompt, i - 1)
  /\ ~IsWordAt(prompt, i + Len(word))

\* The prompt mentions the environment by its exact name, or by its name
\* with blanks for dashes.
Mentions(prompt, name) ==
  \E i \in 1 .. (Len(prompt) - Len(name) + 1) :
    TokenAt(prompt, ToLowerCase(name), i) \/ TokenAt(prompt, Undashed(ToLowerCase(name)), i)

\* The keyword clusters and the suffix of each, in the order they are tried.
ClusterSuffixes == <<"prod", "staging", "dev">>
ClusterKeywords ==
  [suffix \in Range(ClusterSuffixes) |->
     CASE suffix = "prod" -> {"production", "prod", "live"}
       [] suffix = "staging" -> {"staging", "stage", "uat"}
       [] suffix = "dev" -> {"development", "dev", "local"}]

\* The positions of the registered environments whose name contains `suffix`.
Carrying(suffix) ==
  {i \in DOMAIN RegisteredNames : Includes(ToLowerCase(RegisteredNames[i]), suffix)}

\* The environment the prompt should be found to speak of: {} when none.
ExpectedEnvironment(prompt) ==
  LET named == {i \in DOMAIN RegisteredNames : Mentions(prompt, RegisteredNames[i])}
      hinted == {k \in DOMAIN ClusterSuffixes :
                   /\ \E keyword \in ClusterKeywords[ClusterSuffixes[k]] : Includes(prompt, keyword)
                   /\ Carrying(ClusterSuffixes[k]) # {}}
  IN IF named # {} THEN Some(RegisteredNames[First(named)])
     ELSE IF hinted # {} THEN Some(RegisteredNames[First(Carrying(ClusterSuffixes[First(hinted)]))])
     ELSE Undefined

\* A call of route that names no environment, so that route infers one.
Inferring(c) == Classified(c) /\ ParamsOf(c).environment \in {Undefined, Some("")}

\* The prompt of property P7, on a registry whose production is "prod-db".
IsP7(c) ==
  /\ Inferring(c) /\ PromptOf(c) = "show tables in prod"
  /\ "prod-db" \in DOMAIN environments /\ "prod" \notin DOMAIN environments
  /\ environments["prod-db"].readonly = Some(TRUE)

\* C24: when the prompt mentions registered environments by name, the
\* inferred environment is the first of them in registration order, whatever
\* cluster keywords the prompt contains; otherwise it is the first registered
\* environment whose name contains the suffix of the first cluster that has
\* a keyword in the prompt and such an environment; otherwise it is
\* unresolved.  The prompt "show tables in prod" with a readonly environment
\* "prod-db" infers "prod-db" and selects a schema-discovery operation with a
\* score above 0 that no gate stops.
C24_EnvironmentInference ==
  \A c \in Callers :
    /\ Inferring(c) => PlanOf(c).environment = ExpectedEnvironment(PromptOf(c))
    /\ IsP7(c) =>
         /\ PlanOf(c).environment = Some("prod-db")
         /\ HasWinner(c)
         /\ \E i \in DOMAIN WinnerOf(c).intents : WinnerOf(c).intents[i] = "schema_discovery"
         /\ \E score \in PlanOf(c).winningScore : score > 0
         /\ PlanOf(c).gate = "PASS"
         /\ args[c].environment = Some("prod-db")

\* The prompt of P7 was routed to list_tables on "prod-db" and answered.
C24_Witness ==
  \E c \in Callers :
    /\ IsP7(c) /\ Answered(c)
    /\ RouteResultOf(c).success
    /\ RouteResultOf(c).routedTool = Some("list_tables")
    /\ RouteResultOf(c).selectedEnvironment = Some("prod-db")

\* The properties of the registry speak of the call made of it and of the
\* answer it gave.
Asked(method) == registryCall.method = method
Threw == registryCall.answer = Undefined
AnswerOf == CHOOSE answer \in registryCall.answer : TRUE

\* C25: getEnvironment(name) returns the configuration registered under
\* name; with no name or an empty one it returns the default environment;
\* for a name that is not registered it throws, and so returns no other
\* environment's configuration.
C25_GetEnvironment ==
  Asked("getEnvironment") =>
    LET name == registryCall.arguments.name
    IN /\ name \in {Undefined, Some("")} =>
            ~Threw /\ AnswerOf = environments[defaultEnvironment]
       /\ \A registered \in DOMAIN environments :
            name = Some(registered) =>
              ~Threw /\ AnswerOf = environments[registered] /\ AnswerOf.name = registered
       /\ (name \notin {Undefined, Some("")} /\ name \cap DOMAIN environments = {}) => Threw

\* The registry was asked for "ghost", which is not registered, and threw.
C25_Witness ==
  /\ Asked("getEnvironment") /\ registryCall.arguments.name = Some("ghost")
  /\ "ghost" \notin DOMAIN environments /\ Threw

\* The environment a call of isDatabaseAllowed or isSchemaAllowed is about.
CalledName ==
  IF registryCall.arguments.environmentName \in {Undefined, Some("")}
  THEN defaultEnvironment
  ELSE CHOOSE n \in registryCall.arguments.environmentName : TRUE
CalledEnvironment == environments[CalledName]
SameDatabase(a, b) == ToLowerCase(a) = ToLowerCase(b)

\* C26: for an environment whose accessLevel is "database" or absent,
\* isDatabaseAllowed allows a database if and only if it is the environment's
\* configured database, compared without regard to case, whatever
\* allowedDatabases and deniedDatabases say.
C26_DatabaseLevelAccess ==
  (Asked("isDatabaseAllowed") /\ ~Threw) =>
    (CalledEnvironment.accessLevel \in {Undefined, Some("database")} =>
       AnswerOf = SameDatabase(registryCall.arguments.databaseName, CalledEnvironment.database))

\* dev has no accessLevel, denies "appdb" and allows only "Other": its own
\* database, asked for as "appdb", was allowed.
C26_Witness ==
  /\ Asked("isDatabaseAllowed") /\ ~Threw /\ CalledName = "dev"
  /\ CalledEnvironment.accessLevel = Undefined
  /\ CalledEnvironment.database = "AppDb"
  /\ CalledEnvironment.deniedDatabases = Some(<<"appdb">>)
  /\ registryCall.arguments.databaseName = "appdb"
  /\ AnswerOf = TRUE

\* The lists of the called environment, as sets of names in lower case.
DeniedNames ==
  {ToLowerCase(db) : db \in UNION {Range(list) : list \in CalledEnvironment.deniedDatabases}}
AllowsAll == CalledEnvironment.allowedDatabases = JsString("*")
AllowedNames ==
  IF CalledEnvironment.allowedDatabases.type = "array"
  THEN {ToLowerCase(CalledEnvironment.allowedDatabases.elements[i].value) :
          i \in DOMAIN CalledEnvironment.allowedDatabases.elements}
  ELSE {}

\* C27: for an environment whose accessLevel is "server", a database of
\* deniedDatabases is denied, even when allowedDatabases is "*" or holds it;
\* a database that is not denied is allowed exactly when allowedDatabases is
\* "*", absent, empty, or holds it; names are compared without regard to case.
C27_ServerLevelAccess ==
  (Asked("isDatabaseAllowed") /\ ~Threw /\ CalledEnvironment.accessLevel = Some("server")) =>
    LET db == ToLowerCase(registryCall.arguments.databaseName)
    IN /\ db \in DeniedNames => AnswerOf = FALSE
       /\ db \notin DeniedNames =>
            AnswerOf = (AllowsAll \/ AllowedNames = {} \/ db \in AllowedNames)

\* ops denies "sales" and allows "Sales": "SALES" was denied.
C27_Witness ==
  /\ Asked("isDatabaseAllowed") /\ ~Threw
  /\ CalledEnvironment.accessLevel = Some("server")
  /\ registryCall.arguments.databaseName = "SALES"
  /\ "sales" \in DeniedNames /\ "sales" \in AllowedNames
  /\ AnswerOf = FALSE

\* The reference a call of isSchemaAllowed is about, and the patterns of the
\* called environment that match the schema or the reference.
CalledSchema == registryCall.arguments.schemaName
CalledReference ==
  IF registryCall.arguments.tableName = "" THEN CalledSchema
  ELSE CalledSchema \o "." \o registryCall.arguments.tableName
PatternsOf(lists) == UNION {Range(list) : list \in lists}
Matching(lists) ==
  {pattern \in PatternsOf(lists) :
     matchesPattern(CalledSchema, pattern) \/ matchesPattern(CalledReference, pattern)}

\* C28: isSchemaAllowed denies whenever a pattern of deniedSchemas matches
\* the schema or schema.table, even if a pattern of allowedSchemas matches
\* too; otherwise, when allowedSchemas is not empty, it allows only if one of
\* its patterns matches the schema or schema.table; without an allow list it
\* allows.
C28_SchemaFilter ==
  (Asked("isSchemaAllowed") /\ ~Threw) =>
    LET denied == Matching(CalledEnvironment.deniedSchemas)
        allowed == Matching(CalledEnvironment.allowedSchemas)
    IN /\ denied # {} => AnswerOf = FALSE
       /\ (denied = {} /\ PatternsOf(CalledEnvironment.allowedSchemas) # {}) =>
            AnswerOf = (allowed # {})
       /\ (denied = {} /\ PatternsOf(CalledEnvironment.allowedSchemas) = {}) =>
            AnswerOf = TRUE

\* prod allows "dbo.*" and denies "*.sensitive_*": dbo.sensitive_pay, which
\* both match, was denied.
C28_Witness ==
  /\ Asked("isSchemaAllowed") /\ ~Threw /\ CalledName = "prod"
  /\ CalledReference = "dbo.sensitive_pay"
  /\ "dbo.*" \in Matching(CalledEnvironment.allowedSchemas)
  /\ "*.sensitive_*" \in Matching(CalledEnvironment.deniedSchemas)
  /\ AnswerOf = FALSE

\* The glob of the claim: "*" stands for any run of characters, every other
\* character for itself whatever its case, and the whole value is matched.
RECURSIVE GlobMatches(_, _)
GlobMatches(value, pattern) ==
  IF pattern = "" THEN value = ""
  ELSE IF CharAt(pattern, 1) = "*"
  THEN \E rest \in 1 .. Len(value) + 1 :
         GlobMatches(SubSeq(value, rest, Len(value)), SubSeq(pattern, 2, Len(pattern)))
  ELSE /\ value # ""
       /\ ToLowerCase(SubSeq(value, 1, 1)) = ToLowerCase(SubSeq(pattern, 1, 1))
       /\ GlobMatches(SubSeq(value, 2, Len(value)), SubSeq(pattern, 2, Len(pattern)))

\* C29: matchesPattern(value, pattern) is true exactly when the whole value
\* matches the glob pattern, "*" matching any run of characters, empty or
\* not, every other character matching itself, without regard to case.
C29_GlobMatch ==
  Asked("matchesPattern") =>
    AnswerOf = GlobMatches(registryCall.arguments.value, registryCall.arguments.pattern)

\* What the claim says of a value of the file and of the value loaded for
\* it: a string is its resolution, and so are the strings of an object or
\* of an array, at any depth.
RECURSIVE ResolvedAtAnyDepth(_, _, _)
ResolvedAtAnyDepth(before, after, processEnv) ==
  IF before.type = "string"
  THEN after = JsString(resolveSecrets(before.value, processEnv))
  ELSE IF before.type = "object"
  THEN /\ after.type = "object" /\ DOMAIN after.fields = DOMAIN before.fields
       /\ \A key \in DOMAIN before.fields :
            ResolvedAtAnyDepth(before.fields[key], after.fields[key], processEnv)
  ELSE IF before.type = "array"
  THEN /\ after.type = "array" /\ DOMAIN after.elements = DOMAIN before.elements
       /\ \A i \in DOMAIN before.elements :
            ResolvedAtAnyDepth(before.elements[i], after.elements[i], processEnv)
  ELSE after = before

\* C30: at load, every ${secret:NAME} of a string of the configuration, at
\* any depth, is replaced by the process variable NAME when it is set and
\* left as it is when it is not; the load does not fail.
C30_SecretsResolvedAtLoad ==
  Asked("loadFromFile") =>
    /\ ~Threw
    /\ \A i \in DOMAIN registryCall.arguments.file :
         ResolvedAtAnyDepth(JsObjectOf(registryCall.arguments.file[i]),
                            JsObjectOf(AnswerOf[i]),
                            registryCall.arguments.processEnv)

C32_RowCapHolds ==
  toolCall.tool = "read_data" /\ toolCall.result.success =>
    \A M \in toolCall.params.environmentPolicy.maxRowsDefault :
      toolCall.result.recordCount <= M

\* C33: update_data (delete_data) issues its UPDATE (DELETE) only when the
\* WHERE clause is not blank, the rows counted are at least 1 and at most
\* maxRows (1000 when not given) and the confirmation is set; otherwise it
\* fails or previews and modifies no row; and an executed statement never
\* modifies more rows than that cap.
MutationIssued ==
  \E i \in DOMAIN toolCall.result.statements :
    \/ StartsWith(toolCall.result.statements[i], "UPDATE ")
    \/ StartsWith(toolCall.result.statements[i], "DELETE ")
RowCap == IF toolCall.params.maxRows = JsUndefined THEN 1000 ELSE toolCall.params.maxRows.value
Confirmation ==
  IF toolCall.tool = "update_data" THEN toolCall.params.confirmUpdate
  ELSE toolCall.params.confirmDelete
C33_MutationGuard ==
  toolCall.tool \in {"update_data", "delete_data"} =>
    /\ MutationIssued =>
         /\ ~IsBlankWhere(toolCall.params.whereClause)
         /\ toolCall.answers.counted # Undefined
         /\ \A n \in toolCall.answers.counted : 1 <= n /\ n <= RowCap
         /\ Truthy(Confirmation)
         /\ \A n \in toolCall.answers.modified : n <= RowCap
    /\ ~MutationIssued => ~toolCall.result.success /\ toolCall.result.rowsAffected = 0

\* C34: under any interleaving of concurrent wrapped calls that target
\* different environments, every request the run of a tool creates, also
\* after it has awaited an earlier query, is on the connection resolved for
\* its own call.
C34_RequestsOnOwnConnection ==
  \A c \in Callers : obs[c].requestCount > 0 => obs[c].requests \subseteq obs[c].own

\* C35: whenever no getConnection and no closeAll is in flight, every
\* connection opened and not closed is the handle cached for its environment:
\* at most one open connection per environment, and none once closeAll has
\* cleared the cache.
CachedPools == {e.pool : e \in UNION {connections[n] : n \in DOMAIN connections}}
C35_OpenConnectionsAreCached ==
  (closeAll.at = 0 /\ \A c \in Callers : ~InGetConnection(c)) => connected \subseteq CachedPools

\* C36: route reports success true only when the selected operation was
\* executed: when the wrapper rejects the routed call (TOOL_DENIED,
\* TOOL_NOT_ALLOWED, ENVIRONMENT_READONLY, APPROVAL_REQUIRED) route returns
\* success false.
C36_SuccessMeansExecuted ==
  \A c \in Callers :
    routing[c].stage = "done" =>
      \A routed \in routing[c].result :
        routed.success =>
          /\ obs[c].runCalls = 1
          /\ \A toolResult \in routed.toolResult : toolResult.status # "rejected"

\* C37: the environment and environmentPolicy delivered to the underlying
\* operation are the name and the policy the wrapper derived from the
\* registry for the resolved environment, whatever environmentPolicy and
\* policy-shaped fields the caller supplied; every other argument of the
\* caller is passed through unchanged.
CallerArguments == toolCall.params.rawArgs
C37_DeliveredPolicyIsTheRegistrys ==
  toolCall.tool = "wrapToolRun" =>
    \A delivered \in toolCall.result.delivered :
      \A envConfig \in getEnvironment(EnvironmentArg(CallerArguments)) :
        /\ DOMAIN delivered = DOMAIN CallerArguments \cup {"environment", "environmentPolicy"}
        /\ delivered["environment"] = JsString(envConfig.name)
        /\ delivered["environmentPolicy"] = JsPolicy(BuildPolicy(envConfig))
        /\ \A key \in DOMAIN CallerArguments \ {"environment", "environmentPolicy"} :
             delivered[key] = CallerArguments[key]
C37_Witness ==
  /\ toolCall.tool = "wrapToolRun"
  /\ toolCall.result.outcome = "delivered"
  /\ Get(CallerArguments, "environmentPolicy") = CallerPolicy
  /\ Get(CallerArguments, "environment") = JsNumber(5)
  /\ "readonly" \in DOMAIN CallerArguments

\* C38: every tool the tools/call dispatcher or the router's registry can
\* reach has its run replaced by the policy wrapper before the first request
\* is handled: no request reaches a run that is not wrapped, and no tool is
\* wrapped twice.
C38_WrappedBeforeServing ==
  /\ \A t \in ToolObjects : startup.wrapped[t] <= 1
  /\ startup.at = "serving" =>
       \A t \in Range(DispatchedTools) \cup RegisteredTools : startup.wrapped[t] = 1
  /\ startup.handled # NoRequest /\ startup.handled.reached => startup.handled.wraps = 1
C38_Witness ==
  /\ startup.handled # NoRequest
  /\ startup.handled.via = "route"
  /\ startup.handled.name = "list_databases"
  /\ startup.handled.wraps = 1

\* C39: the environment the router passes to the operation is
\* params.environment when it is given; otherwise the environment inferred
\* from the prompt when there is one, in place of any environment of the
\* caller's toolArguments; otherwise the caller's toolArguments.environment
\* if present, else none.
RoutedPrompt(params) == ToLowerCase(Trim(params.prompt.value))
CallersEnvironment(params) == Get(normalizeArguments(params.toolArguments), "environment")
PassedEnvironment(plan) == Get(plan.toolArguments, "environment")
C39_EnvironmentPassed ==
  \A c \in Callers :
    routing[c].stage \in {"running", "done"} =>
      \A params \in routing[c].params, plan \in routing[c].plan :
        plan.gate = "PASS" =>
          IF params.environment \notin {Undefined, Some("")}
          THEN PassedEnvironment(plan) = JsString(CHOOSE e \in params.environment : TRUE)
          ELSE IF inferEnvironment(RoutedPrompt(params)) # Undefined
          THEN PassedEnvironment(plan)
                 = JsString(CHOOSE e \in inferEnvironment(RoutedPrompt(params)) : TRUE)
          ELSE PassedEnvironment(plan) = CallersEnvironment(params)
C39_Witness ==
  \E c \in Callers :
    /\ routing[c].stage = "done"
    /\ \E params \in routing[c].params, plan \in routing[c].plan :
         /\ plan.gate = "PASS"
         /\ params.environment = Undefined
         /\ inferEnvironment(RoutedPrompt(params)) # Undefined
         /\ CallersEnvironment(params) = JsString("qa")
         /\ PassedEnvironment(plan) # JsString("qa")

\* C40: with the shipped registry, for every non-empty prompt, every
\* arguments object and every preferredToolName, with mutations allowed or
\* not, the best candidate's score is greater than 0: route never returns
\* NO_TOOL_MATCH and always names an operation.
C40_AlwaysAMatch ==
  \A c \in Callers :
    routing[c].stage # "none" =>
      \A plan \in routing[c].plan :
        plan.gate # "MISSING_PROMPT" =>
          /\ intentRouter.tools = toolRegistry
          /\ plan.gate # "NO_TOOL_MATCH"
          /\ plan.bestCandidate # Undefined
          /\ plan.winningScore # Undefined
          /\ \A score \in plan.winningScore : score > 0
          /\ routing[c].stage = "done" =>
               \A routed \in routing[c].result : routed.routedTool # Undefined
C40_Witness ==
  \E c \in Callers :
    /\ routing[c].stage = "done"
    /\ ~intentRouter.allowMutations
    /\ \E params \in routing[c].params, plan \in routing[c].plan, routed \in routing[c].result :
         /\ params.prompt = JsString("hello")
         /\ params.toolArguments = Undefined
         /\ routed.routedTool # Undefined
         /\ \E score \in plan.winningScore : score > 0

====
